---- MODULE Spec2Model ----
(***************************************************************************)
(* Model of the datatool backend (src-tauri): the PostgresManager          *)
(* connection manager (db/postgres.rs) with its two tokio RwLocks, the     *)
(* read operations that run statements against the active pool, the       *)
(* row-to-JSON value coercion and the password encryption (crypto/mod.rs). *)
(*                                                                         *)
(* Every caller (a tauri command invocation) is a process.  A process      *)
(* steps from one .await point of the async fn to the next; the code       *)
(* between two .await points is one atomic step.                           *)
(***************************************************************************)
EXTENDS Integers, FiniteSets, Sequences, TLC

\* ---------------------------------------------------------------- bounds
NProcs == 2          \* concurrent callers
MaxPools == 2        \* pools that PgPoolOptions::connect builds in one run
MaxCols == 2         \* columns of a row handed to row_to_json_values
MaxRows == 2         \* rows of a table or of a result set

Procs == 1 .. NProcs
PoolIds == 1 .. MaxPools
NoPool == 0          \* Option<PgPool>::None
NoProc == 0
ConnIds == {"A", "B"}
NoId == "none"       \* Option<String>::None

ReadKinds == {"test_connection", "execute_query", "fetch_tables",
              "fetch_columns", "fetch_table_data", "explain_query"}

\* number of statements a read operation sends to the pool
NStmts(kind) == IF kind \in {"fetch_columns", "fetch_table_data"} THEN 2 ELSE 1

VARIABLES
    pool,            \* PostgresManager.pool: NoPool or the installed pool
    connection_id,   \* PostgresManager.connection_id: NoId or an id
    poolWriter,      \* holder of the write guard of the pool RwLock
    poolReaders,     \* holders of read guards of the pool RwLock
    queue,           \* callers standing at the pool RwLock, in order of arrival
    poolState,       \* per pool: "unbuilt", "open", "closed", "dropped"
    idOf,            \* per open pool: connection_id argument of its connect
    pc,              \* per process: position in its call
    op,              \* per process: the operation it runs (or ran last)
    cidArg,          \* per process: connection_id argument of connect
    taken,           \* per process: pool taken out by disconnect
    built,           \* per process: pool built by connect
    attempts,        \* per process: pool builds tried by this connect
    rpool,           \* per process: pool a read obtained on entry
    left,            \* per process: statements a read still has to run
    sent,            \* per process: statements a read has run
    overflows,       \* per process: its offset arithmetic overflows and panics
    cmd,             \* per process: the command making its calls, if any
    returned,        \* the operation and value of a call returning in this step
    lastCall,        \* serial runs: the connect/disconnect that returned last
    prevCall,        \* serial runs: the one that returned before lastCall
    serial,          \* TRUE when callers run connect/disconnect one at a time
    row,             \* the PgRow given to row_to_json_values
    values,          \* the Vec<JsonValue> it returns
    rowDone,         \* TRUE once row_to_json_values has returned
    args,            \* arguments and surroundings of a call taken on its own
    result,          \* what that call returned
    db,              \* the database behind the pool, as that call finds it
    call             \* that call under way: its caller, statements and answers

mgrVars == <<pool, connection_id, poolWriter, poolReaders, poolState, idOf>>
procVars == <<pc, op, cidArg, taken, built, attempts, rpool, left, sent,
              overflows, cmd>>
histVars == <<lastCall, prevCall, serial>>
rowVars == <<row, values, rowDone>>
callVars == <<args, result, db, call>>
vars == <<pool, connection_id, poolWriter, poolReaders, queue, poolState, idOf,
          pc, op, cidArg, taken, built, attempts, rpool, left, sent,
          overflows, cmd, returned, lastCall, prevCall, serial, row, values,
          rowDone, args, result, db, call>>

NoCall == [kind |-> "none", ok |-> TRUE, cid |-> NoId, pool |-> NoPool,
           attempts |-> 0]
NoReturn == [op |-> "none", val |-> "none"]
NoCmd == [step |-> "none", result |-> "none"]
NoArgs == [fn |-> "none"]
NoResult == [fn |-> "none"]
NoDb == [table |-> <<>>, catalog |-> {}, changed |-> FALSE]
NoDataCall == [caller |-> NoProc, stmts |-> <<>>, answers |-> <<>>]

\* callers that are in no call, and a lock nobody holds or waits for
InitProcs ==
    /\ poolWriter = NoProc
    /\ poolReaders = {}
    /\ queue = <<>>
    /\ pc = [p \in Procs |-> "idle"]
    /\ op = [p \in Procs |-> "none"]
    /\ cidArg = [p \in Procs |-> NoId]
    /\ taken = [p \in Procs |-> NoPool]
    /\ built = [p \in Procs |-> NoPool]
    /\ attempts = [p \in Procs |-> 0]
    /\ rpool = [p \in Procs |-> NoPool]
    /\ left = [p \in Procs |-> 0]
    /\ sent = [p \in Procs |-> 0]
    /\ overflows = [p \in Procs |-> FALSE]
    /\ cmd = [p \in Procs |-> NoCmd]
    /\ lastCall = NoCall
    /\ prevCall = NoCall

\* PostgresManager::new, and callers that have not called yet
InitMgr ==
    /\ pool = NoPool
    /\ connection_id = NoId
    /\ poolState = [k \in PoolIds |-> "unbuilt"]
    /\ idOf = [k \in PoolIds |-> NoId]
    /\ returned = NoReturn
    /\ InitProcs

\* the manager after connect("A", ..) on a new manager has returned Ok
Connected ==
    /\ pool = 1
    /\ connection_id = "A"
    /\ poolState = [k \in PoolIds |-> IF k = 1 THEN "open" ELSE "unbuilt"]
    /\ idOf = [k \in PoolIds |-> IF k = 1 THEN "A" ELSE NoId]
    /\ returned = [op |-> "connect", val |-> "Ok"]
    /\ InitProcs

\* no row is being converted
NoRow ==
    /\ row = <<>>
    /\ values = <<>>
    /\ rowDone = FALSE

\* no call is being looked at on its own
NoArgsGiven ==
    /\ args = NoArgs
    /\ result = NoResult
    /\ db = NoDb
    /\ call = NoDataCall

\* callers may overlap connect and disconnect calls at will
Init ==
    /\ InitMgr
    /\ serial = FALSE
    /\ NoRow
    /\ NoArgsGiven

\* a connect or disconnect call is made only after the one before returned
InitSerial ==
    /\ InitMgr
    /\ serial = TRUE
    /\ NoRow
    /\ NoArgsGiven

\* ------------------------------------------------------------ the RwLock
\* The tokio RwLock is a semaphore with a first-in first-out list of
\* waiters.  A caller that reaches self.pool.read().await or
\* self.pool.write().await takes its permits at once when they are there and
\* nobody waits, and joins the list otherwise.  When a guard is dropped the
\* permits go to the waiters from the head of the list: to every reader up
\* to the first writer, or to the writer at the head once no guard is left.
\* A reader that was handed its permit goes on when the runtime polls it, in
\* any order with the other readers that have theirs.
\*
\* queue holds, in the order they reached the lock, the callers that stand
\* at it and have not gone on.  Those that have their permits are the
\* writer at the head when no guard is held, and the readers with no writer
\* before them when no write guard is held.
LockPcs == {"d_take", "c_install", "r_lock"}

\* the queue once p has left it
Leave(p) == SelectSeq(queue, LAMBDA q : q # p)

\* the queue once p has left it and stands at pc value at
Arrive(p, at) == IF at \in LockPcs THEN Append(Leave(p), p) ELSE Leave(p)

\* a write lock that does not wait for the readers
CanWrite_IgnoresReaders(p) == poolWriter = NoProc /\ Head(queue) = p

\* self.pool.write().await has its permits when p is at the head of the
\* queue and nobody holds a guard
CanWrite(p) == poolWriter = NoProc /\ poolReaders = {} /\ Head(queue) = p

\* self.pool.read().await has its permit when no write guard is held and no
\* writer reached the lock before p and still stands at it; readers that
\* came before p do not hold p up
CanRead(p) ==
    /\ poolWriter = NoProc
    /\ \E i \in 1 .. Len(queue) :
          /\ queue[i] = p
          /\ \A j \in 1 .. i - 1 : pc[queue[j]] = "r_lock"

\* the pools that are built and neither closed nor dropped
OpenPools == {k \in PoolIds : poolState[k] = "open"}

\* the next pool PgPoolOptions::connect would build
NextPool == Cardinality({k \in PoolIds : poolState[k] # "unbuilt"}) + 1

\* process p is inside a connect or disconnect call
InWriterCall(p) == op[p] \in {"connect", "disconnect"}
WriterIdle == \A q \in Procs : ~InWriterCall(q)

\* serial runs remember the connect/disconnect call that returns
Remember(done) ==
    /\ lastCall' = IF serial THEN done ELSE lastCall
    /\ prevCall' = IF serial THEN lastCall ELSE prevCall

\* a caller may enter connect or disconnect now
MayEnterWriter ==
    serial => (WriterIdle /\ \A q \in Procs : cmd[q] = NoCmd)

\* a test_connection_by_id that hands a failed test to its caller at once
AfterReturn_TestFailureReturns(c, r) ==
    CASE c.step = "connect" /\ r = "Ok" -> [step |-> "test", result |-> "none"]
      [] c.step = "test" /\ r = "Ok" -> [step |-> "disconnect", result |-> r]
      [] OTHER -> NoCmd

\* test_connection_by_id after a call of its own returned r: a failed connect
\* ends the command (the ? after connect), a connect that succeeded is
\* followed by test_connection, and test_connection, whatever it returned,
\* by disconnect; the command then returns the result of the test
AfterReturn(c, r) ==
    CASE c.step = "connect" /\ r = "Ok" -> [step |-> "test", result |-> "none"]
      [] c.step = "test" -> [step |-> "disconnect", result |-> r]
      [] OTHER -> NoCmd

\* what the caller of p sees when a call of p returns r: the value of a
\* plain call, the value of the command when it ends, nothing in between
Returns(p, r) ==
    IF cmd[p] = NoCmd THEN [op |-> op[p], val |-> r]
    ELSE IF AfterReturn(cmd[p], r) # NoCmd THEN NoReturn
    ELSE [op |-> "test_connection_by_id",
          val |-> IF cmd[p].step = "disconnect" THEN cmd[p].result ELSE r]

\* the call of p ends with r (a panic ends it without a value): its locals
\* go away, the caller gets r
Ret(p, r) ==
    /\ pc' = [pc EXCEPT ![p] = "idle"]
    /\ op' = [op EXCEPT ![p] = "none"]
    /\ cidArg' = [cidArg EXCEPT ![p] = NoId]
    /\ taken' = [taken EXCEPT ![p] = NoPool]
    /\ built' = [built EXCEPT ![p] = NoPool]
    /\ attempts' = [attempts EXCEPT ![p] = 0]
    /\ rpool' = [rpool EXCEPT ![p] = NoPool]
    /\ left' = [left EXCEPT ![p] = 0]
    /\ sent' = [sent EXCEPT ![p] = 0]
    /\ overflows' = [overflows EXCEPT ![p] = FALSE]
    /\ cmd' = [cmd EXCEPT ![p] = AfterReturn(cmd[p], r)]
    /\ returned' = Returns(p, r)
    /\ queue' = Leave(p)
    /\ UNCHANGED <<serial, rowVars>>

\* p enters operation o and stands at its first step
Enter(p, o, at) ==
    /\ pc[p] = "idle"
    /\ cmd[p] = NoCmd
    /\ op' = [op EXCEPT ![p] = o]
    /\ pc' = [pc EXCEPT ![p] = at]
    /\ returned' = NoReturn
    /\ queue' = Arrive(p, at)
    /\ UNCHANGED <<mgrVars, taken, built, attempts, rpool, sent, cmd,
                   histVars, rowVars>>

\* p moves on inside its call; nothing returns in this step
Goto(p, at) ==
    /\ pc' = [pc EXCEPT ![p] = at]
    /\ returned' = NoReturn
    /\ queue' = Arrive(p, at)
    /\ UNCHANGED <<op, cidArg, overflows, cmd, histVars, rowVars>>

\* ---------------------------------------------------- connect/disconnect
\* a caller enters connect(connection_id, ...)
ConnectCall(p, cid) ==
    /\ MayEnterWriter
    /\ Enter(p, "connect", "d_take")
    /\ cidArg' = [cidArg EXCEPT ![p] = cid]
    /\ UNCHANGED <<left, overflows, callVars>>

\* a caller enters disconnect()
DisconnectCall(p) ==
    /\ MayEnterWriter
    /\ Enter(p, "disconnect", "d_take")
    /\ UNCHANGED <<cidArg, left, overflows, callVars>>

\* a connect that forgets to disconnect first: the slot is left as it is
DisconnectTake_SkippedByConnect(p) ==
    /\ pc[p] = "d_take"
    /\ CanWrite(p)
    /\ IF op[p] = "connect"
         THEN /\ Goto(p, "c_build")
              /\ UNCHANGED <<pool, poolWriter, taken>>
         ELSE /\ taken' = [taken EXCEPT ![p] = pool]
              /\ pool' = NoPool
              /\ IF pool # NoPool
                   THEN /\ poolWriter' = p
                        /\ Goto(p, "d_close")
                   ELSE /\ poolWriter' = poolWriter
                        /\ Goto(p, "d_clear")
    /\ UNCHANGED <<connection_id, poolReaders, poolState, idOf, built,
                   attempts, rpool, left, sent>>
    /\ UNCHANGED callVars

\* disconnect: self.pool.write().await.take(); the write guard lives to the
\* end of the if-let, so it is kept over close() and dropped at once on None
DisconnectTake(p) ==
    /\ pc[p] = "d_take"
    /\ CanWrite(p)
    /\ taken' = [taken EXCEPT ![p] = pool]
    /\ pool' = NoPool
    /\ IF pool # NoPool
         THEN /\ poolWriter' = p
              /\ Goto(p, "d_close")
         ELSE /\ poolWriter' = poolWriter
              /\ Goto(p, "d_clear")
    /\ UNCHANGED <<connection_id, poolReaders, poolState, idOf, built,
                   attempts, rpool, left, sent>>
    /\ UNCHANGED callVars

\* disconnect: pool.close().await waits until no statement runs on the taken
\* pool, closes it and consumes it; then the write guard is dropped
DisconnectClose(p) ==
    /\ pc[p] = "d_close"
    /\ \A q \in Procs : ~(pc[q] = "r_stmt" /\ rpool[q] = taken[p])
    /\ poolState' = [poolState EXCEPT ![taken[p]] = "closed"]
    /\ idOf' = [idOf EXCEPT ![taken[p]] = NoId]
    /\ taken' = [taken EXCEPT ![p] = NoPool]
    /\ poolWriter' = NoProc
    /\ Goto(p, "d_clear")
    /\ UNCHANGED <<pool, connection_id, poolReaders, built, attempts, rpool,
                   left, sent>>
    /\ UNCHANGED callVars

\* a disconnect that leaves the identity in place
DisconnectClear_KeepsId(p) ==
    /\ pc[p] = "d_clear"
    /\ connection_id' = connection_id
    /\ IF op[p] = "disconnect"
         THEN /\ Ret(p, "unit")
              /\ Remember([kind |-> "disconnect", ok |-> TRUE, cid |-> NoId,
                            pool |-> NoPool, attempts |-> 0])
         ELSE /\ Goto(p, "c_build")
              /\ UNCHANGED <<taken, built, attempts, rpool, left, sent>>
    /\ UNCHANGED <<pool, poolWriter, poolReaders, poolState, idOf>>
    /\ UNCHANGED callVars

\* disconnect: *self.connection_id.write().await = None; a plain disconnect
\* returns here, connect goes on to build its pool
DisconnectClear(p) ==
    /\ pc[p] = "d_clear"
    /\ connection_id' = NoId
    /\ IF op[p] = "disconnect"
         THEN /\ Ret(p, "unit")
              /\ Remember([kind |-> "disconnect", ok |-> TRUE, cid |-> NoId,
                            pool |-> NoPool, attempts |-> 0])
         ELSE /\ Goto(p, "c_build")
              /\ UNCHANGED <<taken, built, attempts, rpool, left, sent>>
    /\ UNCHANGED <<pool, poolWriter, poolReaders, poolState, idOf>>
    /\ UNCHANGED callVars

\* connect: PgPoolOptions::new().max_connections(5).connect(..).await gives
\* a new open pool
ConnectBuildOk(p) ==
    /\ pc[p] = "c_build"
    /\ NextPool <= MaxPools
    /\ poolState' = [poolState EXCEPT ![NextPool] = "open"]
    /\ idOf' = [idOf EXCEPT ![NextPool] = cidArg[p]]
    /\ built' = [built EXCEPT ![p] = NextPool]
    /\ attempts' = [attempts EXCEPT ![p] = @ + 1]
    /\ Goto(p, "c_install")
    /\ UNCHANGED <<pool, connection_id, poolWriter, poolReaders, taken, rpool,
                   left, sent>>
    /\ UNCHANGED callVars

\* a connect that tries the build once more before it gives up
ConnectBuildFail_Retries(p) ==
    /\ pc[p] = "c_build"
    /\ IF attempts[p] = 0
         THEN /\ attempts' = [attempts EXCEPT ![p] = @ + 1]
              /\ Goto(p, "c_build")
              /\ UNCHANGED <<taken, built, rpool, left, sent>>
         ELSE /\ Ret(p, "ConnectionFailed")
              /\ Remember([kind |-> "connect", ok |-> FALSE,
                            cid |-> cidArg[p], pool |-> NoPool,
                            attempts |-> attempts[p] + 1])
    /\ UNCHANGED mgrVars
    /\ UNCHANGED callVars

\* connect: the pool build fails, map_err(ConnectionFailed)? returns
ConnectBuildFail(p) ==
    /\ pc[p] = "c_build"
    /\ Ret(p, "ConnectionFailed")
    /\ Remember([kind |-> "connect", ok |-> FALSE, cid |-> cidArg[p],
                  pool |-> NoPool, attempts |-> attempts[p] + 1])
    /\ UNCHANGED mgrVars
    /\ UNCHANGED callVars

\* connect: *self.pool.write().await = Some(pool); a pool still in the slot
\* is dropped by the assignment without close()
ConnectInstall(p) ==
    /\ pc[p] = "c_install"
    /\ CanWrite(p)
    /\ pool' = built[p]
    /\ poolState' = IF pool # NoPool
                      THEN [poolState EXCEPT ![pool] = "dropped"]
                      ELSE poolState
    /\ idOf' = IF pool # NoPool THEN [idOf EXCEPT ![pool] = NoId] ELSE idOf
    /\ Goto(p, "c_setid")
    /\ UNCHANGED <<connection_id, poolWriter, poolReaders, taken, built,
                   attempts, rpool, left, sent>>
    /\ UNCHANGED callVars

\* connect: *self.connection_id.write().await = Some(connection_id); Ok(())
ConnectSetId(p) ==
    /\ pc[p] = "c_setid"
    /\ connection_id' = cidArg[p]
    /\ Ret(p, "Ok")
    /\ Remember([kind |-> "connect", ok |-> TRUE, cid |-> cidArg[p],
                  pool |-> built[p], attempts |-> attempts[p]])
    /\ UNCHANGED <<pool, poolWriter, poolReaders, poolState, idOf>>
    /\ UNCHANGED callVars

\* ------------------------------------------------------ get_connection_id
\* a caller enters get_connection_id()
GetIdCall(p) ==
    /\ Enter(p, "get_connection_id", "g_read")
    /\ UNCHANGED <<cidArg, left, overflows, callVars>>

\* self.connection_id.read().await.clone()
GetIdRead(p) ==
    /\ pc[p] = "g_read"
    /\ Ret(p, connection_id)
    /\ UNCHANGED <<mgrVars, lastCall, prevCall>>
    /\ UNCHANGED callVars

\* --------------------------------------------------- test_connection_by_id
\* the command is called; the saved connection is not found, or its password
\* does not decrypt, and the command returns the error without a call to the
\* manager
TestByIdLookupFails(p) ==
    /\ pc[p] = "idle"
    /\ cmd[p] = NoCmd
    /\ returned' = [op |-> "test_connection_by_id", val |-> "LookupFailed"]
    /\ UNCHANGED <<mgrVars, queue, procVars, histVars, rowVars, callVars>>

\* the command is called, finds the saved connection and enters
\* postgres.connect(&saved_conn.id, ...)
TestByIdConnect(p, cid) ==
    /\ pc[p] = "idle"
    /\ cmd[p] = NoCmd
    /\ MayEnterWriter
    /\ cmd' = [cmd EXCEPT ![p] = [step |-> "connect", result |-> "none"]]
    /\ op' = [op EXCEPT ![p] = "connect"]
    /\ pc' = [pc EXCEPT ![p] = "d_take"]
    /\ cidArg' = [cidArg EXCEPT ![p] = cid]
    /\ returned' = NoReturn
    /\ queue' = Arrive(p, "d_take")
    /\ UNCHANGED <<mgrVars, taken, built, attempts, rpool, left, sent,
                   overflows, histVars, rowVars, callVars>>

\* connect returned Ok: the command enters postgres.test_connection()
TestByIdTest(p) ==
    /\ pc[p] = "idle"
    /\ cmd[p].step = "test"
    /\ op' = [op EXCEPT ![p] = "read"]
    /\ pc' = [pc EXCEPT ![p] = "r_lock"]
    /\ left' = [left EXCEPT ![p] = NStmts("test_connection")]
    /\ returned' = NoReturn
    /\ queue' = Arrive(p, "r_lock")
    /\ UNCHANGED <<mgrVars, cidArg, taken, built, attempts, rpool, sent,
                   overflows, cmd, histVars, rowVars, callVars>>

\* test_connection returned: the command enters postgres.disconnect()
TestByIdDisconnect(p) ==
    /\ pc[p] = "idle"
    /\ cmd[p].step = "disconnect"
    /\ op' = [op EXCEPT ![p] = "disconnect"]
    /\ pc' = [pc EXCEPT ![p] = "d_take"]
    /\ returned' = NoReturn
    /\ queue' = Arrive(p, "d_take")
    /\ UNCHANGED <<mgrVars, cidArg, taken, built, attempts, rpool, left, sent,
                   overflows, cmd, histVars, rowVars, callVars>>

\* ------------------------------------------------------ value coercion
\* A column of a PgRow: the declared type name, whether the stored value is
\* SQL NULL, a value or a non-finite float, and the value itself as a
\* sequence of integers (one number, the character codes of a text, the 16
\* bytes of a uuid); jtag is the JSON kind of a JSON/JSONB document.
Cell(type, kind, jtag, val) ==
    [type |-> type, kind |-> kind, jtag |-> jtag, val |-> val]

SqlNull(type) == Cell(type, "null", "none", <<>>)
Value(type, val) == Cell(type, "value", "none", val)
Doc(type, jtag, val) == Cell(type, "value", jtag, val)

AUuid == <<0, 17, 34, 51, 68, 85, 102, 119, 136, 153, 170, 187, 204, 221,
           238, 255>>

\* type_info().name() of a column: the display name of its type, which for
\* character(n) (bpchar) is CHAR and for the one-byte type char is "CHAR"
\* with the quotation marks
TypeNames == {"BOOL", "INT2", "INT4", "INT8", "FLOAT4", "FLOAT8", "JSON",
              "JSONB", "UUID", "TEXT", "VARCHAR", "CHAR", "\"CHAR\"",
              "NUMERIC", "TIMESTAMP"}

Cells ==
    {SqlNull(t) : t \in TypeNames}
    \cup {Value("BOOL", <<0>>), Value("BOOL", <<1>>)}
    \cup {Value("INT2", <<-32768>>), Value("INT2", <<7>>)}
    \cup {Value("INT4", <<-2147483647>>), Value("INT4", <<7>>)}
    \cup {Value("INT8", <<-5>>), Value("INT8", <<2147483647>>)}
    \cup {Cell(t, k, "none", <<>>) :
             t \in {"FLOAT4", "FLOAT8"}, k \in {"NaN", "Infinity", "-Infinity"}}
    \cup {Value(t, <<15>>) : t \in {"FLOAT4", "FLOAT8"}}
    \cup {Doc(t, "null", <<>>) : t \in {"JSON", "JSONB"}}
    \cup {Doc(t, "number", <<3>>) : t \in {"JSON", "JSONB"}}
    \cup {Doc(t, "object", <<1, 2>>) : t \in {"JSON", "JSONB"}}
    \cup {Value("UUID", AUuid)}
    \cup {Value("TEXT", <<>>), Value("TEXT", <<97, 98>>)}
    \cup {Value("VARCHAR", <<97>>)}
    \cup {Value("CHAR", <<97>>)}
    \cup {Value("\"CHAR\"", <<97>>)}
    \cup {Value("NUMERIC", <<15>>)}
    \cup {Value("TIMESTAMP", <<2026>>)}

Rows == UNION {[1 .. n -> Cells] : n \in 0 .. MaxCols}

\* serde_json::Value
Json(tag, val) == [tag |-> tag, val |-> val]
JsonNull == Json("null", <<>>)

\* sqlx Type::compatible of the Rust type named in try_get::<T, _>: the
\* column types try_get accepts for it, by the name type_info().name()
\* gives them (String accepts text, name, bpchar, varchar, unknown and
\* citext; bpchar is named CHAR)
Compatible(rust, type) ==
    CASE rust = "bool" -> type = "BOOL"
      [] rust = "i32" -> type = "INT4"
      [] rust = "i64" -> type = "INT8"
      [] rust = "f64" -> type = "FLOAT8"
      [] rust = "JsonValue" -> type \in {"JSON", "JSONB"}
      [] rust = "Uuid" -> type = "UUID"
      [] rust = "String" -> type \in {"TEXT", "NAME", "CHAR", "VARCHAR",
                                     "UNKNOWN", "citext"}
      [] OTHER -> FALSE

\* row.try_get::<T, _>(i) is Ok: the value is not SQL NULL (T is no Option)
\* and the column type is one T accepts
TryGetOk(rust, cell) == cell.kind # "null" /\ Compatible(rust, cell.type)

\* the two lowercase hexadecimal digits of a byte, as character codes
HexByte(b) ==
    LET HexDigit(n) == IF n < 10 THEN 48 + n ELSE 87 + n
    IN  <<HexDigit(b \div 16), HexDigit(b % 16)>>

RECURSIVE HexBytes(_)
HexBytes(bytes) ==
    IF bytes = <<>> THEN <<>>
    ELSE HexByte(Head(bytes)) \o HexBytes(Tail(bytes))

\* Uuid::to_string: hyphenated lowercase, 8-4-4-4-12
UuidToString(bytes) ==
    HexBytes(SubSeq(bytes, 1, 4)) \o <<45>> \o
    HexBytes(SubSeq(bytes, 5, 6)) \o <<45>> \o
    HexBytes(SubSeq(bytes, 7, 8)) \o <<45>> \o
    HexBytes(SubSeq(bytes, 9, 10)) \o <<45>> \o
    HexBytes(SubSeq(bytes, 11, 16))

\* serde_json::Number::from_f64 is None for NaN and the infinities
FromF64(cell) ==
    IF cell.kind = "value" THEN Json("number", cell.val) ELSE JsonNull

\* the match on type_name of row_to_json_values for one column
ColumnToJson(cell) ==
    CASE cell.type = "BOOL" ->
           IF TryGetOk("bool", cell) THEN Json("bool", cell.val) ELSE JsonNull
      [] cell.type \in {"INT2", "INT4"} ->
           IF TryGetOk("i32", cell) THEN Json("number", cell.val) ELSE JsonNull
      [] cell.type = "INT8" ->
           IF TryGetOk("i64", cell) THEN Json("number", cell.val) ELSE JsonNull
      [] cell.type \in {"FLOAT4", "FLOAT8"} ->
           IF TryGetOk("f64", cell) THEN FromF64(cell) ELSE JsonNull
      [] cell.type \in {"JSON", "JSONB"} ->
           IF TryGetOk("JsonValue", cell) THEN Json(cell.jtag, cell.val)
           ELSE JsonNull
      [] cell.type = "UUID" ->
           IF TryGetOk("Uuid", cell)
             THEN Json("string", UuidToString(cell.val))
             ELSE JsonNull
      [] OTHER ->
           IF TryGetOk("String", cell) THEN Json("string", cell.val)
           ELSE JsonNull

\* a conversion that leaves out the columns it cannot extract
row_to_json_values_SkipsFailed(r) ==
    SelectSeq([i \in 1 .. Len(r) |-> ColumnToJson(r[i])],
              LAMBDA v : v # JsonNull)

\* row_to_json_values: one JSON value per column, in column order
row_to_json_values(r) == [i \in 1 .. Len(r) |-> ColumnToJson(r[i])]

\* any row a query can return
InitRow ==
    /\ InitMgr
    /\ serial = FALSE
    /\ row \in Rows
    /\ values = <<>>
    /\ rowDone = FALSE
    /\ NoArgsGiven

\* row_to_json_values(row) is called and returns
RowToJson ==
    /\ ~rowDone
    /\ values' = row_to_json_values(row)
    /\ rowDone' = TRUE
    /\ UNCHANGED <<mgrVars, queue, procVars, returned, histVars, row,
                   callVars>>

NextRow == RowToJson

\* the conversion of one row, for every row
SpecRow == InitRow /\ [][NextRow]_vars

\* ------------------------------------------------------- i32 arithmetic
MaxI32 == 2147483647
MinI32 == -2147483647 - 1

\* the four bytes, lowest first, of a number in 0 .. MaxI32
Limbs(n) == <<n % 256, (n \div 256) % 256, (n \div 65536) % 256,
              n \div 16777216>>

\* the two's complement bytes of an i32
ToLimbs(n) ==
    IF n >= 0 THEN Limbs(n)
    ELSE [Limbs((n + MaxI32) + 1) EXCEPT ![4] = @ + 128]

\* the bytes of the absolute value of an i32
Magnitude(n) ==
    IF n >= 0 THEN Limbs(n)
    ELSE IF n = MinI32 THEN <<0, 0, 0, 128>>
    ELSE Limbs(-n)

\* the i32 whose two's complement bytes are l
FromLimbs(l) ==
    IF l[4] >= 128
      THEN (l[4] - 256) * 16777216 + l[3] * 65536 + l[2] * 256 + l[1]
      ELSE l[4] * 16777216 + l[3] * 65536 + l[2] * 256 + l[1]

\* sum of the byte products x[i] * y[j] that fall on byte k of the product
RECURSIVE ColumnSum(_, _, _, _)
ColumnSum(x, y, k, i) ==
    IF i > 4 THEN 0
    ELSE (IF k + 1 - i \in 1 .. 4 THEN x[i] * y[k + 1 - i] ELSE 0)
         + ColumnSum(x, y, k, i + 1)

\* bytes k .. 8 of the product of x and y, given the carry into byte k
RECURSIVE MulFrom(_, _, _, _)
MulFrom(x, y, k, carry) ==
    IF k > 8 THEN <<>>
    ELSE LET t == ColumnSum(x, y, k, 1) + carry
         IN  <<t % 256>> \o MulFrom(x, y, k + 1, t \div 256)

\* the eight bytes of the product of two four-byte numbers
MulLimbs(x, y) == MulFrom(x, y, 1, 0)

\* a * b leaves the range of i32
MulOverflows(a, b) ==
    LET m == MulLimbs(Magnitude(a), Magnitude(b))
        negative == (a < 0) # (b < 0) /\ a # 0 /\ b # 0
        high == \E k \in 5 .. 8 : m[k] # 0
    IN  \/ high
        \/ m[4] >= 128 /\ ~(negative /\ SubSeq(m, 1, 4) = <<0, 0, 0, 128>>)

\* i32::wrapping_mul: the low four bytes of the product
WrappingMul(a, b) ==
    FromLimbs(SubSeq(MulLimbs(ToLimbs(a), ToLimbs(b)), 1, 4))

\* page - 1 leaves the range of i32
SubOverflows(a) == a = MinI32

\* i32::wrapping_sub(a, 1)
WrappingSub1(a) == IF a = MinI32 THEN MaxI32 ELSE a - 1

\* the decimal digits of -m for m <= 0, as character codes
RECURSIVE DigitsOfNeg(_)
DigitsOfNeg(m) ==
    LET d == (10 - (m % 10)) % 10
    IN  IF m > -10 THEN <<48 - m>>
        ELSE DigitsOfNeg((m + d) \div 10) \o <<48 + d>>

\* Display of an i32, as format!("{}", n) writes it
DecimalString(n) ==
    IF n >= 0 THEN DigitsOfNeg(-n) ELSE <<45>> \o DigitsOfNeg(n)

\* minus the number a digit string stands for, digits read left to right
RECURSIVE NegValue(_, _)
NegValue(str, acc) ==
    IF str = <<>> THEN acc
    ELSE NegValue(Tail(str), acc * 10 - (Head(str) - 48))

\* the integer the database reads from a signed integer literal
ParseInteger(str) ==
    IF Head(str) = 45 THEN NegValue(Tail(str), 0) ELSE -NegValue(str, 0)

\* ------------------------------------------------------ tables and rows
\* columns a table may have, in ordinal order, and values stored in them
TableColumns == <<[name |-> "id", type |-> "INT4"],
                  [name |-> "name", type |-> "TEXT"],
                  [name |-> "active", type |-> "BOOL"],
                  [name |-> "total", type |-> "INT8"]>>

SampleCells(type) ==
    CASE type = "INT4" -> {Value("INT4", <<1>>), Value("INT4", <<2>>)}
      [] type = "TEXT" -> {Value("TEXT", <<97>>), SqlNull("TEXT")}
      [] type = "BOOL" -> {Value("BOOL", <<1>>), Value("BOOL", <<0>>)}
      [] OTHER -> {Value("INT8", <<7>>), SqlNull("INT8")}

\* the cells column i of a table can hold, each with the name the PgRow
\* knows the column by
NamedCells(i) ==
    {[type |-> c.type, kind |-> c.kind, jtag |-> c.jtag, val |-> c.val,
      name |-> TableColumns[i].name] :
        c \in SampleCells(TableColumns[i].type)}

\* the PgRows a table of n columns can hold
TableRows(n) ==
    {r \in [1 .. n -> UNION {NamedCells(i) : i \in 1 .. n}] :
        \A i \in 1 .. n : r[i] \in NamedCells(i)}

\* the tables: up to MaxCols columns, up to MaxRows rows in scan order
Tables ==
    UNION {[1 .. m -> TableRows(n)] : n \in 0 .. MaxCols, m \in 0 .. MaxRows}

\* ------------------------------------------------------------ the catalog
\* The catalog: the tables with their columns (information_schema.columns)
\* and the constraints on them.  A constraint is one row of
\* information_schema.table_constraints and, being a primary key, unique or
\* foreign key constraint, one row of key_column_usage for each of its
\* columns.
CatalogTables ==
    {[schema |-> "public", table |-> "users"],
     [schema |-> "public", table |-> "orders"],
     [schema |-> "audit", table |-> "users"]}

\* the columns of a table, in ordinal order
ColumnsOfTable(t) ==
    CASE t = [schema |-> "public", table |-> "users"] ->
           <<"id", "name", "active">>
      [] t = [schema |-> "public", table |-> "orders"] -> <<"name", "id">>
      [] OTHER -> <<"id">>

\* information_schema.columns
CatalogColumns ==
    UNION {{[schema |-> t.schema, table |-> t.table,
             column_name |-> ColumnsOfTable(t)[i], ordinal_position |-> i,
             data_type |-> IF ColumnsOfTable(t)[i] = "id" THEN "integer"
                           ELSE "text",
             is_nullable |-> IF ColumnsOfTable(t)[i] = "id" THEN "NO"
                             ELSE "YES",
             column_default |-> IF ColumnsOfTable(t)[i] = "active"
                                  THEN "true" ELSE "None"] :
              i \in 1 .. Len(ColumnsOfTable(t))} : t \in CatalogTables}

\* the constraints a table may carry
ConstraintsOn(t) ==
    {[schema |-> t.schema, table |-> t.table, constraint_name |-> n,
      constraint_type |-> ty, columns |-> cols] :
        n \in {"users_pkey", "k"},
        ty \in {"PRIMARY KEY", "UNIQUE", "FOREIGN KEY"},
        cols \in (SUBSET {ColumnsOfTable(t)[i] :
                            i \in 1 .. Len(ColumnsOfTable(t))}) \ {{}}}

\* the database accepts the constraints: a primary key or unique constraint
\* owns an index of its name, and index names are unique in a schema; the
\* name of a foreign key constraint is unique only among the constraints of
\* its table
ValidConstraints(cs) ==
    \A a, b \in cs :
       (a # b /\ a.schema = b.schema
        /\ a.constraint_name = b.constraint_name)
       => /\ a.table # b.table
          /\ "FOREIGN KEY" \in {a.constraint_type, b.constraint_type}

\* the catalogs: every table with no constraint or one
Catalogs ==
    {cs \in {a \cup b \cup c :
               a \in {{}} \cup {{k} : k \in ConstraintsOn(
                          [schema |-> "public", table |-> "users"])},
               b \in {{}} \cup {{k} : k \in ConstraintsOn(
                          [schema |-> "public", table |-> "orders"])},
               c \in {{}} \cup {{k} : k \in ConstraintsOn(
                          [schema |-> "audit", table |-> "users"])}} :
        ValidConstraints(cs)}

\* information_schema.table_constraints
TableConstraints(cs) ==
    {[constraint_name |-> k.constraint_name, table_schema |-> k.schema,
      table_name |-> k.table, constraint_type |-> k.constraint_type] :
        k \in cs}

\* information_schema.key_column_usage
KeyColumnUsage(cs) ==
    UNION {{[constraint_name |-> k.constraint_name,
             table_schema |-> k.schema, table_name |-> k.table,
             column_name |-> col] : col \in k.columns} : k \in cs}

\* the rows of a set in the order of ordinal_position
RECURSIVE OrderByOrdinal(_)
OrderByOrdinal(rows) ==
    IF rows = {} THEN <<>>
    ELSE LET first == CHOOSE r \in rows :
                         \A o \in rows :
                            r.ordinal_position <= o.ordinal_position
         IN  <<first>> \o OrderByOrdinal(rows \ {first})

\* the first statement of fetch_columns: column_name, data_type,
\* is_nullable and column_default of the columns of (schema, table)
SelectColumns(schema, table) ==
    LET found == OrderByOrdinal({c \in CatalogColumns :
                                   c.schema = schema /\ c.table = table})
    IN  [i \in 1 .. Len(found) |->
           [column_name |-> found[i].column_name,
            data_type |-> found[i].data_type,
            is_nullable |-> found[i].is_nullable,
            column_default |-> found[i].column_default]]

\* the second statement: table_constraints tc JOIN key_column_usage kcu ON
\* tc.constraint_name = kcu.constraint_name AND tc.table_schema =
\* kcu.table_schema WHERE tc.constraint_type = 'PRIMARY KEY' AND
\* tc.table_schema = $1 AND tc.table_name = $2
SelectPrimaryKeyColumns(cs, schema, table) ==
    {kcu.column_name :
        kcu \in {u \in KeyColumnUsage(cs) :
                   \E tc \in TableConstraints(cs) :
                      /\ tc.constraint_name = u.constraint_name
                      /\ tc.table_schema = u.table_schema
                      /\ tc.constraint_type = "PRIMARY KEY"
                      /\ tc.table_schema = schema
                      /\ tc.table_name = table}}

\* ------------------------------------------------- the database's answers
\* The database holds a table and a catalog.  A statement is answered at the
\* moment it comes to its end, from what the database holds then.
QueryFailed == [status |-> "QueryFailed"]

\* SELECT * FROM "schema"."table" LIMIT limit OFFSET offset, the two numbers
\* given as text: a negative one is an error, otherwise the rows of the scan
\* from position offset (counted from 0), at most limit of them
SelectLimitOffset(table, limitText, offsetText) ==
    LET limit == ParseInteger(limitText)
        offset == ParseInteger(offsetText)
        from == IF offset >= Len(table) THEN Len(table) + 1 ELSE offset + 1
        upto == IF limit >= Len(table) - (from - 1) THEN Len(table)
                ELSE from - 1 + limit
    IN  IF limit < 0 \/ offset < 0 THEN QueryFailed
        ELSE [status |-> "Ok", rows |-> SubSeq(table, from, upto)]

\* the answer of the database d to a statement: the sql of execute_query is
\* a SELECT of the whole table, a statement that returns no rows, or one the
\* database rejects; SELECT COUNT(*) of fetch_table_data gives the number of
\* rows of the table
Answer(stmt, d) ==
    CASE stmt.shape = "select" -> [status |-> "Ok", rows |-> d.table]
      [] stmt.shape = "command" -> [status |-> "Ok", rows |-> <<>>]
      [] stmt.shape = "count" ->
           [status |-> "Ok", count |-> Len(d.table)]
      [] stmt.shape = "page" ->
           SelectLimitOffset(d.table, stmt.limit, stmt.offset)
      [] stmt.shape = "columns" ->
           [status |-> "Ok", rows |-> SelectColumns(stmt.schema, stmt.table)]
      [] stmt.shape = "pk_columns" ->
           [status |-> "Ok",
            names |-> SelectPrimaryKeyColumns(d.catalog, stmt.schema,
                                              stmt.table)]
      [] OTHER -> QueryFailed

\* ------------------------- execute_query, fetch_table_data, fetch_columns
\* Each function is given by what it returns for the Option it finds in the
\* slot and the answers its statements get, in the order of the code.

\* rows[0].columns() mapped to ColumnMeta
ColumnMetas(r) ==
    [i \in 1 .. Len(r) |-> [name |-> r[i].name, data_type |-> r[i].type]]

\* rows.iter().map(|row| row_to_json_values(row)).collect()
JsonRows(rows) == [k \in 1 .. Len(rows) |-> row_to_json_values(rows[k])]

\* an execute_query that reads the columns of rows[0] of an empty result
execute_query_NoEmptyCase(slot, rows) ==
    IF slot = NoPool
      THEN [fn |-> "execute_query", status |-> "NoActiveConnection"]
    ELSE IF rows.status # "Ok" \/ rows.rows = <<>>
      THEN [fn |-> "execute_query", status |-> "QueryFailed"]
    ELSE [fn |-> "execute_query", status |-> "Ok",
          columns |-> ColumnMetas(rows.rows[1]),
          rows |-> JsonRows(rows.rows),
          row_count |-> Len(JsonRows(rows.rows)),
          affected_rows |-> "None"]

\* execute_query(sql); rows is the answer of fetch_all
execute_query(slot, rows) ==
    IF slot = NoPool
      THEN [fn |-> "execute_query", status |-> "NoActiveConnection"]
    ELSE IF rows.status # "Ok"
      THEN [fn |-> "execute_query", status |-> "QueryFailed"]
    ELSE IF rows.rows = <<>>
      THEN [fn |-> "execute_query", status |-> "Ok", columns |-> <<>>,
            rows |-> <<>>, row_count |-> 0, affected_rows |-> "None"]
    ELSE [fn |-> "execute_query", status |-> "Ok",
          columns |-> ColumnMetas(rows.rows[1]),
          rows |-> JsonRows(rows.rows),
          row_count |-> Len(JsonRows(rows.rows)),
          affected_rows |-> "None"]

\* let offset = (page - 1) * page_size: with overflow checks (a debug build)
\* an overflow panics, without them (a release build) it wraps
Offset(page, page_size, checks) ==
    IF checks /\ (SubOverflows(page)
                  \/ MulOverflows(WrappingSub1(page), page_size))
      THEN [panic |-> TRUE, offset |-> 0]
      ELSE [panic |-> FALSE,
            offset |-> WrappingMul(WrappingSub1(page), page_size)]

\* a fetch_table_data that reports the length of the page as total_count
fetch_table_data_CountsPage(slot, page, page_size, checks, total_count, rows) ==
    IF slot = NoPool
      THEN [fn |-> "fetch_table_data", status |-> "NoActiveConnection"]
    ELSE IF Offset(page, page_size, checks).panic
      THEN [fn |-> "fetch_table_data", status |-> "panic"]
    ELSE IF total_count.status # "Ok" \/ rows.status # "Ok"
      THEN [fn |-> "fetch_table_data", status |-> "QueryFailed"]
    ELSE IF rows.rows = <<>>
      THEN [fn |-> "fetch_table_data", status |-> "Ok", columns |-> <<>>,
            rows |-> <<>>, total_count |-> 0, page |-> page,
            page_size |-> page_size]
    ELSE [fn |-> "fetch_table_data", status |-> "Ok",
          columns |-> ColumnMetas(rows.rows[1]),
          rows |-> JsonRows(rows.rows),
          total_count |-> Len(rows.rows), page |-> page,
          page_size |-> page_size]

\* fetch_table_data(schema, table, page, page_size); total_count is the
\* answer of the COUNT(*) statement and rows that of the data statement
fetch_table_data(slot, page, page_size, checks, total_count, rows) ==
    IF slot = NoPool
      THEN [fn |-> "fetch_table_data", status |-> "NoActiveConnection"]
    ELSE IF Offset(page, page_size, checks).panic
      THEN [fn |-> "fetch_table_data", status |-> "panic"]
    ELSE IF total_count.status # "Ok" \/ rows.status # "Ok"
      THEN [fn |-> "fetch_table_data", status |-> "QueryFailed"]
    ELSE IF rows.rows = <<>>
      THEN [fn |-> "fetch_table_data", status |-> "Ok", columns |-> <<>>,
            rows |-> <<>>, total_count |-> total_count.count,
            page |-> page, page_size |-> page_size]
    ELSE [fn |-> "fetch_table_data", status |-> "Ok",
          columns |-> ColumnMetas(rows.rows[1]),
          rows |-> JsonRows(rows.rows),
          total_count |-> total_count.count, page |-> page,
          page_size |-> page_size]

\* fetch_columns(schema, table); columns and pk_columns are the answers of
\* its two statements
fetch_columns(slot, columns, pk_columns) ==
    IF slot = NoPool
      THEN [fn |-> "fetch_columns", status |-> "NoActiveConnection"]
    ELSE IF columns.status # "Ok" \/ pk_columns.status # "Ok"
      THEN [fn |-> "fetch_columns", status |-> "QueryFailed"]
    ELSE [fn |-> "fetch_columns", status |-> "Ok",
          columns |->
             [i \in 1 .. Len(columns.rows) |->
                [name |-> columns.rows[i].column_name,
                 data_type |-> columns.rows[i].data_type,
                 is_nullable |-> columns.rows[i].is_nullable = "YES",
                 column_default |-> columns.rows[i].column_default,
                 is_primary_key |->
                    columns.rows[i].column_name \in pk_columns.names]]]

\* statement number i of the call taken on its own: the sql of
\* execute_query; count_sql and data_sql of fetch_table_data; the two
\* statements of fetch_columns with schema and table bound to $1 and $2
Statement(i) ==
    CASE args.fn = "execute_query" -> args.stmt
      [] args.fn = "fetch_table_data" ->
           IF i = 1 THEN [shape |-> "count"]
           ELSE [shape |-> "page", limit |-> DecimalString(args.page_size),
                 offset |-> DecimalString(
                               Offset(args.page, args.page_size,
                                      args.checks).offset)]
      [] OTHER ->
           [shape |-> IF i = 1 THEN "columns" ELSE "pk_columns",
            schema |-> args.schema, table |-> args.table]

\* what the call taken on its own returns when it ends with the Option slot
\* found in the slot and the answers received so far
Outcome(slot, answers) ==
    LET answer(i) == IF i <= Len(answers) THEN answers[i]
                     ELSE [status |-> "none"]      \* never asked for
    IN  CASE args.fn = "execute_query" -> execute_query(slot, answer(1))
          [] args.fn = "fetch_table_data" ->
               fetch_table_data(slot, args.page, args.page_size,
                                args.checks, answer(1), answer(2))
          [] OTHER -> fetch_columns(slot, answer(1), answer(2))

\* -------------------------------------------------------- read operations
\* the call of p ends: the call taken on its own returns what its function
\* makes of the answers
Ends(p, answers) ==
    /\ IF call.caller = p
         THEN /\ call' = [call EXCEPT !.answers = answers]
              /\ result' = Outcome(pool, answers)
         ELSE UNCHANGED <<call, result>>
    /\ UNCHANGED <<args, db>>

\* the call of p sends its next statement
Sends(p, answers) ==
    /\ IF call.caller = p
         THEN call' = [call EXCEPT
                         !.answers = answers,
                         !.stmts = Append(@, Statement(Len(@) + 1))]
         ELSE UNCHANGED call
    /\ UNCHANGED <<args, result, db>>

\* a caller enters test_connection, execute_query, fetch_tables,
\* fetch_columns, fetch_table_data or explain_query; all six start with the
\* same two lines and differ here in the number of statements they send; ov
\* says that (page - 1) * page_size overflows for the arguments and the
\* build has overflow checks
ReadEnter(p, kind, ov) ==
    /\ Enter(p, "read", "r_lock")
    /\ left' = [left EXCEPT ![p] = NStmts(kind)]
    /\ overflows' = [overflows EXCEPT ![p] = ov]
    /\ UNCHANGED cidArg

\* a read operation is called
ReadCall(p, kind, ov) ==
    /\ ov => kind = "fetch_table_data"
    /\ ReadEnter(p, kind, ov)
    /\ UNCHANGED callVars

\* the call taken on its own is made: execute_query(sql),
\* fetch_table_data(schema, table, page, page_size) or
\* fetch_columns(schema, table)
DataCall(p) ==
    /\ args.fn # "none"
    /\ call = NoDataCall
    /\ ReadEnter(p, args.fn,
                 /\ args.fn = "fetch_table_data"
                 /\ Offset(args.page, args.page_size, args.checks).panic)
    /\ call' = [call EXCEPT !.caller = p]
    /\ UNCHANGED <<args, result, db>>

\* a read that goes on to its statements without looking at the Option
ReadLock_NoCheck(p) ==
    /\ pc[p] = "r_lock"
    /\ CanRead(p)
    /\ poolReaders' = poolReaders \cup {p}
    /\ rpool' = [rpool EXCEPT ![p] = pool]
    /\ Goto(p, "r_stmt")
    /\ Sends(p, <<>>)
    /\ UNCHANGED <<taken, built, attempts, left, sent>>
    /\ UNCHANGED <<pool, connection_id, poolWriter, poolState, idOf>>

\* let pool = self.pool.read().await;
\* let pool = pool.as_ref().ok_or(NoActiveConnection)?;
\* fetch_table_data then computes its offset, and the panic of an overflow
\* unwinds the function: the guard is dropped, no statement is sent, nothing
\* is returned.  Otherwise the first statement is sent and the read guard is
\* kept to the end of the function
ReadLock(p) ==
    /\ pc[p] = "r_lock"
    /\ CanRead(p)
    /\ IF pool = NoPool
         THEN /\ Ret(p, "NoActiveConnection")
              /\ Ends(p, <<>>)
              /\ UNCHANGED <<poolReaders, lastCall, prevCall>>
       ELSE IF overflows[p]
         THEN /\ Ret(p, "panic")
              /\ Ends(p, <<>>)
              /\ UNCHANGED <<poolReaders, lastCall, prevCall>>
         ELSE /\ poolReaders' = poolReaders \cup {p}
              /\ rpool' = [rpool EXCEPT ![p] = pool]
              /\ Goto(p, "r_stmt")
              /\ Sends(p, <<>>)
              /\ UNCHANGED <<taken, built, attempts, left, sent>>
    /\ UNCHANGED <<pool, connection_id, poolWriter, poolState, idOf>>

\* the statement in flight comes to its end against the pool behind the
\* guard and has an answer; the function sends its next statement, or, this
\* having been the last, returns Ok and drops the guard
ReadStmtOk(p) ==
    LET answer == Answer(call.stmts[Len(call.stmts)], db)
    IN  /\ pc[p] = "r_stmt"
        /\ pool # NoPool
        /\ poolState[pool] = "open"
        /\ call.caller = p => answer.status = "Ok"
        /\ IF left[p] = 1
             THEN /\ Ret(p, "Ok")
                  /\ Ends(p, Append(call.answers, answer))
                  /\ poolReaders' = poolReaders \ {p}
                  /\ UNCHANGED <<lastCall, prevCall>>
             ELSE /\ left' = [left EXCEPT ![p] = @ - 1]
                  /\ sent' = [sent EXCEPT ![p] = @ + 1]
                  /\ Goto(p, "r_stmt")
                  /\ Sends(p, Append(call.answers, answer))
                  /\ UNCHANGED <<taken, built, attempts, rpool, poolReaders>>
        /\ UNCHANGED <<pool, connection_id, poolWriter, poolState, idOf>>

\* the statement in flight fails (the database rejects it, the connection
\* breaks; a closed or absent pool makes every statement fail):
\* map_err(QueryFailed)? returns and drops the guard
ReadStmtFail(p) ==
    /\ pc[p] = "r_stmt"
    /\ Ret(p, "QueryFailed")
    /\ Ends(p, Append(call.answers, QueryFailed))
    /\ poolReaders' = poolReaders \ {p}
    /\ UNCHANGED <<pool, connection_id, poolWriter, poolState, idOf, lastCall,
                   prevCall>>

\* ------------------------------------------------- data calls on their own
\* any execute_query or fetch_table_data call on any table, on a new manager
\* or a connected one: the sql is a SELECT of the table, a statement without
\* rows or an invalid one; pages and page sizes are small, large and invalid
InitData ==
    /\ InitMgr \/ Connected
    /\ serial = FALSE
    /\ NoRow
    /\ result = NoResult
    /\ call = NoDataCall
    /\ \E t \in Tables :
          /\ db = [table |-> t, catalog |-> {}, changed |-> FALSE]
          /\ \/ \E sh \in {"select", "command", "invalid"} :
                   args = [fn |-> "execute_query", stmt |-> [shape |-> sh],
                           table |-> t]
             \/ \E pg \in {1, 2, 3, 65537, MaxI32, 0},
                   sz \in {0, 1, 2, 65536, MaxI32, -1}, ch \in BOOLEAN :
                   args = [fn |-> "fetch_table_data", table |-> t,
                           page |-> pg, page_size |-> sz, checks |-> ch]

\* while a statement of the call is in flight another session of the
\* database deletes rows from the end of the table
RowsDeleted ==
    /\ call.caller # NoProc
    /\ pc[call.caller] = "r_stmt"
    /\ ~db.changed
    /\ \E n \in 0 .. Len(db.table) - 1 :
          db' = [db EXCEPT !.table = SubSeq(@, 1, n), !.changed = TRUE]
    /\ UNCHANGED <<mgrVars, queue, procVars, returned, histVars, rowVars,
                   args, result, call>>

NextData ==
    \/ \E p \in Procs : DataCall(p)
    \/ \E p \in Procs : ReadLock(p)
    \/ \E p \in Procs : ReadStmtOk(p)
    \/ \E p \in Procs : ReadStmtFail(p)
    \/ RowsDeleted

\* one data call on its own, for every input
SpecData == InitData /\ [][NextData]_vars

\* any fetch_columns call on any catalog, on a new manager or a connected
\* one
InitColumns ==
    /\ InitMgr \/ Connected
    /\ serial = FALSE
    /\ NoRow
    /\ result = NoResult
    /\ call = NoDataCall
    /\ \E cs \in Catalogs, t \in CatalogTables :
          /\ db = [table |-> <<>>, catalog |-> cs, changed |-> FALSE]
          /\ args = [fn |-> "fetch_columns", catalog |-> cs,
                     schema |-> t.schema, table |-> t.table]

\* while a statement of the call is in flight another session of the
\* database drops a constraint
ConstraintDropped ==
    /\ call.caller # NoProc
    /\ pc[call.caller] = "r_stmt"
    /\ ~db.changed
    /\ \E k \in db.catalog :
          db' = [db EXCEPT !.catalog = @ \ {k}, !.changed = TRUE]
    /\ UNCHANGED <<mgrVars, queue, procVars, returned, histVars, rowVars,
                   args, result, call>>

NextColumns ==
    \/ \E p \in Procs : DataCall(p)
    \/ \E p \in Procs : ReadLock(p)
    \/ \E p \in Procs : ReadStmtOk(p)
    \/ \E p \in Procs : ReadStmtFail(p)
    \/ ConstraintDropped

\* one fetch_columns call on its own, for every catalog
SpecColumns == InitColumns /\ [][NextColumns]_vars

\* ----------------------------------------------------------------- crypto
\* Strings and byte vectors are sequences of bytes (a &str holds UTF-8).
MaxPwLen == 2        \* characters of a password

\* an environment variable that is not set
Unset == <<-1>>

\* "datatool_encryption_salt_v1"
Salt == <<100, 97, 116, 97, 116, 111, 111, 108, 95, 101, 110, 99, 114, 121, 112, 116, 105, 111, 110, 95, 115, 97, 108, 116, 95, 118, 49>>
\* "default_user"
DefaultUser == <<100, 101, 102, 97, 117, 108, 116, 95, 117, 115, 101, 114>>

\* env::var("USER").or_else(|_| env::var("USERNAME"))
\*     .unwrap_or_else(|_| "default_user")
MachineId(env) ==
    IF env.USER # Unset THEN env.USER
    ELSE IF env.USERNAME # Unset THEN env.USERNAME
    ELSE DefaultUser

\* derive_key: the bytes of machine id + salt, cycled, the first 32 of them
derive_key(env) ==
    LET combined == MachineId(env) \o Salt
    IN  [i \in 1 .. 32 |-> combined[((i - 1) % Len(combined)) + 1]]

\* The cipher behind Aes256Gcm::new_from_slice(&key), cipher.encrypt and
\* cipher.decrypt: AES (FIPS 197) with a 256-bit key in Galois/Counter Mode
\* (NIST SP 800-38D) with a 96-bit nonce, no associated data and a 128-bit
\* tag.  Bytes are numbers in 0 .. 255, blocks are sequences of 16 bytes.

\* bitwise exclusive or of two bytes
Xor(a, b) ==
    ((a + b) % 2)
    + 2 * (((a \div 2) + (b \div 2)) % 2)
    + 4 * (((a \div 4) + (b \div 4)) % 2)
    + 8 * (((a \div 8) + (b \div 8)) % 2)
    + 16 * (((a \div 16) + (b \div 16)) % 2)
    + 32 * (((a \div 32) + (b \div 32)) % 2)
    + 64 * (((a \div 64) + (b \div 64)) % 2)
    + 128 * (((a \div 128) + (b \div 128)) % 2)

\* the AES substitution box
SBox ==
    <<99, 124, 119, 123, 242, 107, 111, 197, 48, 1, 103, 43, 254, 215,
      171, 118, 202, 130, 201, 125, 250, 89, 71, 240, 173, 212, 162,
      175, 156, 164, 114, 192, 183, 253, 147, 38, 54, 63, 247, 204,
      52, 165, 229, 241, 113, 216, 49, 21, 4, 199, 35, 195, 24, 150,
      5, 154, 7, 18, 128, 226, 235, 39, 178, 117, 9, 131, 44, 26, 27,
      110, 90, 160, 82, 59, 214, 179, 41, 227, 47, 132, 83, 209, 0,
      237, 32, 252, 177, 91, 106, 203, 190, 57, 74, 76, 88, 207, 208,
      239, 170, 251, 67, 77, 51, 133, 69, 249, 2, 127, 80, 60, 159,
      168, 81, 163, 64, 143, 146, 157, 56, 245, 188, 182, 218, 33, 16,
      255, 243, 210, 205, 12, 19, 236, 95, 151, 68, 23, 196, 167, 126,
      61, 100, 93, 25, 115, 96, 129, 79, 220, 34, 42, 144, 136, 70,
      238, 184, 20, 222, 94, 11, 219, 224, 50, 58, 10, 73, 6, 36, 92,
      194, 211, 172, 98, 145, 149, 228, 121, 231, 200, 55, 109, 141,
      213, 78, 169, 108, 86, 244, 234, 101, 122, 174, 8, 186, 120, 37,
      46, 28, 166, 180, 198, 232, 221, 116, 31, 75, 189, 139, 138,
      112, 62, 181, 102, 72, 3, 246, 14, 97, 53, 87, 185, 134, 193,
      29, 158, 225, 248, 152, 17, 105, 217, 142, 148, 155, 30, 135,
      233, 206, 85, 40, 223, 140, 161, 137, 13, 191, 230, 66, 104, 65,
      153, 45, 15, 176, 84, 187, 22>>

\* the S-box applied to every byte of the state
SubBytes(s) ==
    <<SBox[s[1] + 1], SBox[s[2] + 1], SBox[s[3] + 1], SBox[s[4] + 1],
      SBox[s[5] + 1], SBox[s[6] + 1], SBox[s[7] + 1], SBox[s[8] + 1],
      SBox[s[9] + 1], SBox[s[10] + 1], SBox[s[11] + 1], SBox[s[12] + 1],
      SBox[s[13] + 1], SBox[s[14] + 1], SBox[s[15] + 1], SBox[s[16] + 1]>>

\* multiplication by x in GF(2^8) modulo x^8 + x^4 + x^3 + x + 1
XTime(a) == Xor((2 * a) % 256, IF a >= 128 THEN 27 ELSE 0)

\* the key expansion of AES-256: the bytes so far (the key to begin with)
\* are followed by the next eight words, up to 60 words (240 bytes); the
\* round constants are 1, 2, 4 .. 64
RECURSIVE KeyExpansion(_)
KeyExpansion(w) ==
    IF Len(w) >= 240 THEN SubSeq(w, 1, 240)
    ELSE LET k == SubSeq(w, Len(w) - 31, Len(w))
             rc == <<1, 2, 4, 8, 16, 32, 64>>[Len(w) \div 32]
             SubWord(a) == <<SBox[a[1] + 1], SBox[a[2] + 1], SBox[a[3] + 1],
                             SBox[a[4] + 1]>>
             RotWord(a) == <<a[2], a[3], a[4], a[1]>>
             XorWord(a, b) == <<Xor(a[1], b[1]), Xor(a[2], b[2]),
                                Xor(a[3], b[3]), Xor(a[4], b[4])>>
             w0 == XorWord(SubSeq(k, 1, 4),
                           XorWord(SubWord(RotWord(SubSeq(k, 29, 32))),
                                   <<rc, 0, 0, 0>>))
             w1 == XorWord(SubSeq(k, 5, 8), w0)
             w2 == XorWord(SubSeq(k, 9, 12), w1)
             w3 == XorWord(SubSeq(k, 13, 16), w2)
             w4 == XorWord(SubSeq(k, 17, 20), SubWord(w3))
             w5 == XorWord(SubSeq(k, 21, 24), w4)
             w6 == XorWord(SubSeq(k, 25, 28), w5)
             w7 == XorWord(SubSeq(k, 29, 32), w6)
         IN  KeyExpansion(w \o w0 \o w1 \o w2 \o w3 \o w4 \o w5 \o w6 \o w7)

\* exclusive or of two blocks
XorBlock(x, y) ==
    <<Xor(x[1], y[1]), Xor(x[2], y[2]), Xor(x[3], y[3]), Xor(x[4], y[4]),
      Xor(x[5], y[5]), Xor(x[6], y[6]), Xor(x[7], y[7]), Xor(x[8], y[8]),
      Xor(x[9], y[9]), Xor(x[10], y[10]), Xor(x[11], y[11]), Xor(x[12], y[12]),
      Xor(x[13], y[13]), Xor(x[14], y[14]), Xor(x[15], y[15]), Xor(x[16], y[16])>>

\* row r of the state (bytes r, r + 4, r + 8, r + 12) rotated by r places
ShiftRows(s) ==
    <<s[1], s[6], s[11], s[16], s[5], s[10], s[15], s[4],
      s[9], s[14], s[3], s[8], s[13], s[2], s[7], s[12]>>

\* every column multiplied by the matrix 2 3 1 1 / 1 2 3 1 / 1 1 2 3 /
\* 3 1 1 2
MixColumns(s) ==
    LET MixColumn(a) ==
          <<Xor(Xor(XTime(a[1]), Xor(XTime(a[2]), a[2])), Xor(a[3], a[4])),
            Xor(Xor(a[1], XTime(a[2])), Xor(Xor(XTime(a[3]), a[3]), a[4])),
            Xor(Xor(a[1], a[2]), Xor(XTime(a[3]), Xor(XTime(a[4]), a[4]))),
            Xor(Xor(Xor(XTime(a[1]), a[1]), a[2]), Xor(a[3], XTime(a[4])))>>
    IN  MixColumn(SubSeq(s, 1, 4)) \o MixColumn(SubSeq(s, 5, 8))
        \o MixColumn(SubSeq(s, 9, 12)) \o MixColumn(SubSeq(s, 13, 16))

\* rounds r .. 14 of the cipher on a state of 16 bytes, each ending with
\* the addition of its round key; the last round has no MixColumns
RECURSIVE Rounds(_, _, _)
Rounds(s, w, r) ==
    IF Len(s) # 16 THEN <<>>        \* no state of the cipher
    ELSE IF r = 14 THEN XorBlock(ShiftRows(SubBytes(s)), SubSeq(w, 225, 240))
    ELSE Rounds(XorBlock(MixColumns(ShiftRows(SubBytes(s))),
                         SubSeq(w, 16 * r + 1, 16 * r + 16)), w, r + 1)

\* the AES-256 encryption of one block under the round keys w
AesEncryptBlock(w, block) == Rounds(XorBlock(block, SubSeq(w, 1, 16)), w, 1)

ZeroBlock == <<0, 0, 0, 0, 0, 0, 0, 0, 0, 0, 0, 0, 0, 0, 0, 0>>

\* a block times x in GF(2^128) modulo x^128 + x^7 + x^2 + x + 1 (the
\* leftmost bit is the coefficient of 1): the 128 bits shifted right by one,
\* and reduced with 11100001 in the first byte when a bit falls off the end
MulX(v) ==
    <<Xor(v[1] \div 2, IF v[16] % 2 = 1 THEN 225 ELSE 0),
      (v[2] \div 2) + 128 * (v[1] % 2), (v[3] \div 2) + 128 * (v[2] % 2),
      (v[4] \div 2) + 128 * (v[3] % 2), (v[5] \div 2) + 128 * (v[4] % 2),
      (v[6] \div 2) + 128 * (v[5] % 2), (v[7] \div 2) + 128 * (v[6] % 2),
      (v[8] \div 2) + 128 * (v[7] % 2), (v[9] \div 2) + 128 * (v[8] % 2),
      (v[10] \div 2) + 128 * (v[9] % 2), (v[11] \div 2) + 128 * (v[10] % 2),
      (v[12] \div 2) + 128 * (v[11] % 2), (v[13] \div 2) + 128 * (v[12] % 2),
      (v[14] \div 2) + 128 * (v[13] % 2), (v[15] \div 2) + 128 * (v[14] % 2),
      (v[16] \div 2) + 128 * (v[15] % 2)>>

\* Horner's rule for one byte b of a factor, lowest bit first: z, the value
\* of the bits taken in so far, is multiplied by x and y is added for a set
\* bit; j bits of b are still to come
RECURSIVE GfMulBits(_, _, _, _)
GfMulBits(b, y, z, j) ==
    IF j = 0 THEN z
    ELSE IF z = ZeroBlock
      THEN GfMulBits(b \div 2, y, IF b % 2 = 1 THEN y ELSE ZeroBlock, j - 1)
    ELSE GfMulBits(b \div 2, y,
                   IF b % 2 = 1 THEN XorBlock(MulX(z), y) ELSE MulX(z),
                   j - 1)

\* the same for the bytes k, k - 1 .. 1 of the block x; with k = 16 and
\* z = 0 this is the product of x and y in GF(2^128)
RECURSIVE GfMulFrom(_, _, _, _)
GfMulFrom(x, y, z, k) ==
    IF k = 0 THEN z
    ELSE IF z = ZeroBlock /\ x[k] = 0 THEN GfMulFrom(x, y, z, k - 1)
    ELSE GfMulFrom(x, y, GfMulBits(x[k], y, z, 8), k - 1)

\* GHASH of whole blocks under the hash key h: the value of the blocks
\* before the last one, plus the last one, times h
RECURSIVE GHash(_, _)
GHash(h, data) ==
    IF data = <<>> THEN ZeroBlock
    ELSE GfMulFrom(XorBlock(GHash(h, SubSeq(data, 1, Len(data) - 16)),
                            SubSeq(data, Len(data) - 15, Len(data))),
                   h, ZeroBlock, 16)

\* n as four bytes, highest first
Be32(n) == <<(n \div 16777216) % 256, (n \div 65536) % 256,
             (n \div 256) % 256, n % 256>>

\* counter mode from counter value n on: every block of the data is added
\* to the key stream block of its counter value, the encryption of nonce + n
RECURSIVE Ctr(_, _, _, _)
Ctr(w, nonce, data, n) ==
    IF data = <<>> THEN <<>>
    ELSE LET ks == AesEncryptBlock(w, nonce \o Be32(n))
             m == IF Len(data) <= 16 THEN Len(data) ELSE 16
         IN  [i \in 1 .. m |-> Xor(data[i], ks[i])]
             \o (IF Len(data) <= 16 THEN <<>>
                 ELSE Ctr(w, nonce, SubSeq(data, 17, Len(data)), n + 1))

\* the tag of a ciphertext: GHASH, under the hash key (the encryption of the
\* zero block), of the ciphertext filled up with zero bytes to whole blocks
\* and a block with the lengths in bits of the associated data (none) and of
\* the ciphertext, masked with the key stream block of counter value 1
Tag(w, nonce, c) ==
    LET padding == [i \in 1 .. (16 - (Len(c) % 16)) % 16 |-> 0]
        lengths == <<0, 0, 0, 0, 0, 0, 0, 0, 0, 0, 0, 0>> \o Be32(8 * Len(c))
    IN  XorBlock(GHash(AesEncryptBlock(w, ZeroBlock),
                       c \o padding \o lengths),
                 AesEncryptBlock(w, nonce \o Be32(1)))

\* Aes256Gcm::new_from_slice(&key): an error unless the key has 32 bytes,
\* else the cipher with its round keys
new_from_slice(key) ==
    IF Len(key) # 32 THEN [ok |-> FALSE, w |-> <<>>]
    ELSE [ok |-> TRUE, w |-> KeyExpansion(key)]

\* cipher.encrypt(nonce, plaintext): the plaintext in counter mode from
\* counter value 2 on, followed by the tag
AeadEncrypt(cipher, nonce, plaintext) ==
    LET c == Ctr(cipher.w, nonce, plaintext, 2)
    IN  c \o Tag(cipher.w, nonce, c)

\* cipher.decrypt(nonce, ciphertext): an error unless the last 16 bytes are
\* the tag of the bytes before them under this key and nonce
AeadDecrypt(cipher, nonce, ciphertext) ==
    IF Len(ciphertext) < 16 THEN [ok |-> FALSE, bytes |-> <<>>]
    ELSE LET n == Len(ciphertext) - 16
             c == SubSeq(ciphertext, 1, n)
         IN  IF SubSeq(ciphertext, n + 1, n + 16) # Tag(cipher.w, nonce, c)
               THEN [ok |-> FALSE, bytes |-> <<>>]
               ELSE [ok |-> TRUE, bytes |-> Ctr(cipher.w, nonce, c, 2)]

\* the base64 STANDARD alphabet: A-Z a-z 0-9 + /, and = for padding
Base64Char(v) ==
    IF v < 26 THEN 65 + v
    ELSE IF v < 52 THEN 97 + (v - 26)
    ELSE IF v < 62 THEN 48 + (v - 52)
    ELSE IF v = 62 THEN 43 ELSE 47

\* the value of a character of the alphabet, -1 for any other character
Base64Value(c) ==
    IF c \in 65 .. 90 THEN c - 65
    ELSE IF c \in 97 .. 122 THEN c - 97 + 26
    ELSE IF c \in 48 .. 57 THEN c - 48 + 52
    ELSE IF c = 43 THEN 62
    ELSE IF c = 47 THEN 63 ELSE -1

\* STANDARD.encode: three bytes give four characters, the last group is
\* padded with =
RECURSIVE Base64Encode(_)
Base64Encode(bytes) ==
    IF bytes = <<>> THEN <<>>
    ELSE IF Len(bytes) = 1
      THEN <<Base64Char(bytes[1] \div 4), Base64Char((bytes[1] % 4) * 16),
             61, 61>>
    ELSE IF Len(bytes) = 2
      THEN <<Base64Char(bytes[1] \div 4),
             Base64Char((bytes[1] % 4) * 16 + bytes[2] \div 16),
             Base64Char((bytes[2] % 16) * 4), 61>>
    ELSE <<Base64Char(bytes[1] \div 4),
           Base64Char((bytes[1] % 4) * 16 + bytes[2] \div 16),
           Base64Char((bytes[2] % 16) * 4 + bytes[3] \div 64),
           Base64Char(bytes[3] % 64)>>
         \o Base64Encode(SubSeq(bytes, 4, Len(bytes)))

Base64Error == [ok |-> FALSE, bytes |-> <<>>]

\* STANDARD.decode: groups of four characters of the alphabet; only the
\* last group may end in = or ==, and its unused bits must be zero
RECURSIVE Base64Decode(_)
Base64Decode(str) ==
    IF str = <<>> THEN [ok |-> TRUE, bytes |-> <<>>]
    ELSE IF Len(str) < 4 THEN Base64Error
    ELSE LET a == Base64Value(str[1])
             b == Base64Value(str[2])
             c == Base64Value(str[3])
             d == Base64Value(str[4])
             rest == Base64Decode(SubSeq(str, 5, Len(str)))
         IN  IF a < 0 \/ b < 0 THEN Base64Error
             ELSE IF Len(str) = 4 /\ str[3] = 61 /\ str[4] = 61
               THEN IF b % 16 # 0 THEN Base64Error
                    ELSE [ok |-> TRUE, bytes |-> <<a * 4 + b \div 16>>]
             ELSE IF Len(str) = 4 /\ str[4] = 61
               THEN IF c < 0 \/ c % 4 # 0 THEN Base64Error
                    ELSE [ok |-> TRUE,
                          bytes |-> <<a * 4 + b \div 16,
                                      (b % 16) * 16 + c \div 4>>]
             ELSE IF c < 0 \/ d < 0 \/ ~rest.ok THEN Base64Error
             ELSE [ok |-> TRUE,
                   bytes |-> <<a * 4 + b \div 16, (b % 16) * 16 + c \div 4,
                               (c % 4) * 64 + d>> \o rest.bytes]

\* String::from_utf8 accepts the bytes: characters of one to four bytes, no
\* overlong forms, no surrogates, nothing above U+10FFFF
RECURSIVE IsUtf8(_)
IsUtf8(bytes) ==
    IF bytes = <<>> THEN TRUE
    ELSE LET n == Len(bytes)
             b == bytes[1]
             Cont(i) == i <= n /\ bytes[i] \in 128 .. 191
             Second(lo, hi) == 2 <= n /\ bytes[2] \in lo .. hi
             Rest(k) == IsUtf8(SubSeq(bytes, k, n))
         IN  IF b < 128 THEN Rest(2)
             ELSE IF b \in 194 .. 223 THEN Cont(2) /\ Rest(3)
             ELSE IF b = 224 THEN Second(160, 191) /\ Cont(3) /\ Rest(4)
             ELSE IF b \in 225 .. 236 \/ b \in 238 .. 239
               THEN Cont(2) /\ Cont(3) /\ Rest(4)
             ELSE IF b = 237 THEN Second(128, 159) /\ Cont(3) /\ Rest(4)
             ELSE IF b = 240
               THEN Second(144, 191) /\ Cont(3) /\ Cont(4) /\ Rest(5)
             ELSE IF b \in 241 .. 243
               THEN Cont(2) /\ Cont(3) /\ Cont(4) /\ Rest(5)
             ELSE IF b = 244
               THEN Second(128, 143) /\ Cont(3) /\ Cont(4) /\ Rest(5)
             ELSE FALSE

\* encrypt_password: base64 of nonce + ciphertext, the nonce drawn at random
encrypt_password(password, nonce_bytes, env) ==
    LET key == derive_key(env)
        cipher == new_from_slice(key)
        ciphertext == AeadEncrypt(cipher, nonce_bytes, password)
        combined == nonce_bytes \o ciphertext
    IN  IF ~cipher.ok
          THEN [fn |-> "encrypt_password", status |-> "EncryptionFailed",
                value |-> <<>>]
        ELSE [fn |-> "encrypt_password", status |-> "Ok",
              value |-> Base64Encode(combined)]

\* a decrypt_password that takes the first 16 bytes for the nonce
decrypt_password_SplitsAt16(encrypted, env) ==
    LET combined == Base64Decode(encrypted)
        nonce_bytes == SubSeq(combined.bytes, 1, 12)
        ciphertext == SubSeq(combined.bytes, 17, Len(combined.bytes))
        cipher == new_from_slice(derive_key(env))
        plaintext == AeadDecrypt(cipher, nonce_bytes, ciphertext)
    IN  IF ~combined.ok \/ Len(combined.bytes) < 12
          THEN [fn |-> "decrypt_password", status |-> "InvalidFormat",
                value |-> <<>>]
        ELSE IF ~cipher.ok \/ ~plaintext.ok \/ ~IsUtf8(plaintext.bytes)
          THEN [fn |-> "decrypt_password", status |-> "DecryptionFailed",
                value |-> <<>>]
        ELSE [fn |-> "decrypt_password", status |-> "Ok",
              value |-> plaintext.bytes]

\* decrypt_password
decrypt_password(encrypted, env) ==
    LET combined == Base64Decode(encrypted)
        nonce_bytes == SubSeq(combined.bytes, 1, 12)
        ciphertext == SubSeq(combined.bytes, 13, Len(combined.bytes))
        cipher == new_from_slice(derive_key(env))
        plaintext == AeadDecrypt(cipher, nonce_bytes, ciphertext)
    IN  IF ~combined.ok \/ Len(combined.bytes) < 12
          THEN [fn |-> "decrypt_password", status |-> "InvalidFormat",
                value |-> <<>>]
        ELSE IF ~cipher.ok \/ ~plaintext.ok \/ ~IsUtf8(plaintext.bytes)
          THEN [fn |-> "decrypt_password", status |-> "DecryptionFailed",
                value |-> <<>>]
        ELSE [fn |-> "decrypt_password", status |-> "Ok",
              value |-> plaintext.bytes]

\* characters of a password, as UTF-8: "a", "~", "e" with acute accent, the
\* euro sign
PasswordChars == {<<97>>, <<126>>, <<195, 169>>, <<226, 130, 172>>}

RECURSIVE Concat(_)
Concat(strs) == IF strs = <<>> THEN <<>> ELSE Head(strs) \o Concat(Tail(strs))

Passwords ==
    {Concat(cs) : cs \in UNION {[1 .. n -> PasswordChars] :
                                  n \in 0 .. MaxPwLen}}

\* values rand::thread_rng().fill(&mut nonce_bytes) may give
Nonces == {[i \in 1 .. 12 |-> 0], [i \in 1 .. 12 |-> 255],
           [i \in 1 .. 12 |-> 17 * i]}

\* the environment of the process: USER and USERNAME set or not
Envs == {[USER |-> <<114, 111, 111, 116>>, USERNAME |-> Unset],
         [USER |-> Unset, USERNAME |-> <<98, 111, 98>>],
         [USER |-> Unset, USERNAME |-> Unset]}

\* texts that are no output of encrypt_password: "QUJ" (length not a
\* multiple of four), "QU!D" (a character outside the alphabet), "QUJD="
\* (padding out of place), "QR==" (unused bits set), "" and "QUJD" (fewer
\* than 12 bytes), 28 zero bytes in base64 (a wrong tag), and the byte 255
\* (no UTF-8) encrypted with nonce 0 under the key of USER=root
Malformed ==
    {[text |-> <<81, 85, 74>>, defect |-> "base64"],
     [text |-> <<81, 85, 33, 68>>, defect |-> "base64"],
     [text |-> <<81, 85, 74, 68, 61>>, defect |-> "base64"],
     [text |-> <<81, 82, 61, 61>>, defect |-> "base64"],
     [text |-> <<>>, defect |-> "short"],
     [text |-> <<81, 85, 74, 68>>, defect |-> "short"],
     [text |-> Base64Encode([i \in 1 .. 11 |-> i]), defect |-> "short"],
     [text |-> Base64Encode([i \in 1 .. 28 |-> 0]), defect |-> "tag"],
     [text |-> Base64Encode(
                   [i \in 1 .. 12 |-> 0]
                   \o AeadEncrypt(new_from_slice(derive_key(
                                      [USER |-> <<114, 111, 111, 116>>,
                                       USERNAME |-> Unset])),
                                  [i \in 1 .. 12 |-> 0], <<255>>)),
      defect |-> "utf8"]}

\* a password to encrypt and decrypt again, or a text handed to
\* decrypt_password
InitCrypto ==
    /\ InitMgr
    /\ serial = FALSE
    /\ NoRow
    /\ result = NoResult
    /\ db = NoDb
    /\ call = NoDataCall
    /\ \/ \E pw \in Passwords, n \in Nonces, env \in Envs :
             args = [fn |-> "encrypt_password", password |-> pw,
                     nonce |-> n, env |-> env, defect |-> "none"]
       \/ \E m \in Malformed, env \in Envs :
             args = [fn |-> "decrypt_password", password |-> m.text,
                     nonce |-> <<>>, env |-> env, defect |-> m.defect]

\* encrypt_password(password) runs and returns
EncryptPassword ==
    /\ args.fn = "encrypt_password"
    /\ result = NoResult
    /\ result' = encrypt_password(args.password, args.nonce, args.env)
    /\ UNCHANGED <<mgrVars, queue, procVars, returned, histVars, rowVars,
                   args, db, call>>

\* decrypt_password(&encrypted) runs on what encrypt_password returned
DecryptEncrypted ==
    /\ args.fn = "encrypt_password"
    /\ result.fn = "encrypt_password"
    /\ result.status = "Ok"
    /\ result' = decrypt_password(result.value, args.env)
    /\ UNCHANGED <<mgrVars, queue, procVars, returned, histVars, rowVars,
                   args, db, call>>

\* decrypt_password runs on a text from elsewhere
DecryptGiven ==
    /\ args.fn = "decrypt_password"
    /\ result = NoResult
    /\ result' = decrypt_password(args.password, args.env)
    /\ UNCHANGED <<mgrVars, queue, procVars, returned, histVars, rowVars,
                   args, db, call>>

NextCrypto == EncryptPassword \/ DecryptEncrypted \/ DecryptGiven

\* encryption and decryption of a password, for every password
SpecCrypto == InitCrypto /\ [][NextCrypto]_vars

\* ------------------------------------------------------------------ Next
Next ==
    \/ \E p \in Procs, cid \in ConnIds : ConnectCall(p, cid)
    \/ \E p \in Procs : DisconnectCall(p)
    \/ \E p \in Procs : DisconnectTake(p)
    \/ \E p \in Procs : DisconnectClose(p)
    \/ \E p \in Procs : DisconnectClear(p)
    \/ \E p \in Procs : ConnectBuildOk(p)
    \/ \E p \in Procs : ConnectBuildFail(p)
    \/ \E p \in Procs : ConnectInstall(p)
    \/ \E p \in Procs : ConnectSetId(p)
    \/ \E p \in Procs : GetIdCall(p)
    \/ \E p \in Procs : GetIdRead(p)
    \/ \E p \in Procs, kind \in ReadKinds, ov \in BOOLEAN :
          ReadCall(p, kind, ov)
    \/ \E p \in Procs : ReadLock(p)
    \/ \E p \in Procs : ReadStmtOk(p)
    \/ \E p \in Procs : ReadStmtFail(p)

Spec == Init /\ [][Next]_vars

\* a step of the call p is in: the runtime polls every task that can go on,
\* and statements, pool builds and pool closes come to an end
Progress(p) ==
    \/ DisconnectTake(p)
    \/ DisconnectClose(p)
    \/ DisconnectClear(p)
    \/ ConnectBuildOk(p)
    \/ ConnectBuildFail(p)
    \/ ConnectInstall(p)
    \/ ConnectSetId(p)
    \/ GetIdRead(p)
    \/ ReadLock(p)
    \/ ReadStmtOk(p)
    \/ ReadStmtFail(p)

\* the callers under a fair runtime
SpecLive == Init /\ [][Next]_vars /\ \A p \in Procs : WF_vars(Progress(p))

\* the same callers, making connect and disconnect calls one after the other
SpecSerial == InitSerial /\ [][Next]_vars

\* the callers also run the test_connection_by_id command
NextCommand ==
    \/ Next
    \/ \E p \in Procs : TestByIdLookupFails(p)
    \/ \E p \in Procs, cid \in ConnIds : TestByIdConnect(p, cid)
    \/ \E p \in Procs : TestByIdTest(p)
    \/ \E p \in Procs : TestByIdDisconnect(p)

\* commands and connect/disconnect calls made one after the other
SpecCommand == InitSerial /\ [][NextCommand]_vars

TypeOK ==
    /\ pool \in PoolIds \cup {NoPool}
    /\ connection_id \in ConnIds \cup {NoId}
    /\ poolWriter \in Procs \cup {NoProc}
    /\ poolReaders \subseteq Procs
    /\ queue \in Seq(Procs)
    /\ \A p \in Procs :
          Cardinality({i \in 1 .. Len(queue) : queue[i] = p})
             = IF pc[p] \in LockPcs THEN 1 ELSE 0
    /\ poolState \in [PoolIds -> {"unbuilt", "open", "closed", "dropped"}]
    /\ \A p \in Procs : left[p] \in 0 .. 2
    /\ overflows \in [Procs -> BOOLEAN]
    /\ \A p \in Procs : overflows[p] => pc[p] = "r_lock"

\* ================================================================ claims
\* the pool slot and the identity agree: both absent, or the identity is the
\* connection_id of the connect that built the installed pool
PoolIdConsistent ==
    /\ (pool = NoPool) <=> (connection_id = NoId)
    /\ pool # NoPool => connection_id = idOf[pool]

\* p stands between the take and the clear of a disconnect
InDisconnectWindow(p) == pc[p] \in {"d_close", "d_clear"}

\* q runs an operation whose next step reads the slot or the identity
Observer(q) == pc[q] \in {"g_read", "r_lock", "d_take"}

\* p has begun to act as connect or disconnect and has not returned
Acting(p) == pc[p] \in {"d_close", "d_clear", "c_build", "c_install",
                        "c_setid"}

\* C1: under any interleaving of connect and disconnect calls at most one
\* pool is open, and no installed pool is overwritten or dropped while it
\* is still open.
C1_NoTwoPools ==
    /\ Cardinality(OpenPools) <= 1
    /\ \A k \in PoolIds : poolState[k] # "dropped"

\* C2: a successful connect installs pool and identity atomically: no
\* operation running beside it finds the new pool installed with the
\* identity absent or stale, or the identity set with the pool absent.
C2_AtomicInstall ==
    ( /\ poolWriter = NoProc
      /\ \A p \in Procs : ~InDisconnectWindow(p)
      /\ \E q \in Procs : Observer(q) )
    => PoolIdConsistent

\* C3: when no connect or disconnect call is in progress, get_connection_id
\* returns Some(id) exactly if a pool is installed, and id is the
\* connection_id of the connect that installed it.
C3_IdentityIffPool ==
    (returned.op = "get_connection_id" /\ WriterIdle)
    => /\ (returned.val # NoId) <=> (pool # NoPool)
       /\ pool # NoPool => returned.val = idOf[pool]

\* C4: connect(A) then connect(B), one after the other and both successful,
\* leave exactly identity B live with B's pool installed; A's pool is closed
\* (not dropped) before B's pool goes into the slot; reads that run after
\* connect(B) returned run against B's pool only.
C4_ConnectReplaces ==
    /\ \A p \in Procs :
          (serial /\ pc[p] \in {"c_install", "c_setid"})
          => /\ OpenPools = {built[p]}
             /\ \A k \in PoolIds : poolState[k] # "dropped"
    /\ (serial /\ WriterIdle /\ lastCall.kind = "connect" /\ lastCall.ok)
       => /\ connection_id = lastCall.cid
          /\ pool = lastCall.pool
          /\ pool # NoPool
          /\ idOf[pool] = lastCall.cid
          /\ OpenPools = {lastCall.pool}
          /\ \A k \in PoolIds : poolState[k] # "dropped"
          /\ \A p \in Procs : pc[p] = "r_stmt" => rpool[p] = lastCall.pool
          /\ returned.op = "read" => returned.val # "NoActiveConnection"
          /\ returned.op = "get_connection_id" => returned.val = lastCall.cid

\* C4 witness: connect(A) and then connect(B) have returned Ok, the pool of
\* A is closed, and a read holds the pool of B
C4_Witness ==
    /\ serial /\ WriterIdle
    /\ prevCall.kind = "connect" /\ prevCall.ok /\ prevCall.cid = "A"
    /\ lastCall.kind = "connect" /\ lastCall.ok /\ lastCall.cid = "B"
    /\ poolState[prevCall.pool] = "closed"
    /\ connection_id = "B"
    /\ \E p \in Procs : pc[p] = "r_stmt" /\ rpool[p] = lastCall.pool

\* C5: after disconnect has returned (calls made one after the other) pool
\* and identity are absent and every pool is closed, get_connection_id
\* returns none and reads fail with NoActiveConnection; a disconnect called
\* when already disconnected takes nothing, closes nothing and leaves both
\* absent.
C5_DisconnectClears ==
    /\ (serial /\ WriterIdle /\ lastCall.kind = "disconnect")
       => /\ pool = NoPool
          /\ connection_id = NoId
          /\ OpenPools = {}
          /\ \A p \in Procs : pc[p] # "r_stmt"
          /\ returned.op = "get_connection_id" => returned.val = NoId
          /\ returned.op = "read" => returned.val = "NoActiveConnection"
    /\ \A p \in Procs :
          (serial /\ op[p] = "disconnect" /\ lastCall.kind = "disconnect")
          => /\ pc[p] # "d_close"
             /\ taken[p] = NoPool
             /\ pool = NoPool
             /\ connection_id = NoId

\* C5 witness: connect returned Ok, then disconnect returned, and now a
\* read returns NoActiveConnection while the read of another caller stands
\* at the lock
C5_Witness ==
    /\ serial /\ WriterIdle
    /\ prevCall.kind = "connect" /\ prevCall.ok
    /\ lastCall.kind = "disconnect"
    /\ poolState[prevCall.pool] = "closed"
    /\ returned = [op |-> "read", val |-> "NoActiveConnection"]
    /\ \E q \in Procs : pc[q] = "r_lock"

\* C6: a connect whose pool build fails returns ConnectionFailed after one
\* build attempt, installs neither pool nor identity, and leaves both absent
\* with the pool that was active before closed: get_connection_id returns
\* none and reads fail with NoActiveConnection.
C6_FailedConnect ==
    (serial /\ WriterIdle /\ lastCall.kind = "connect" /\ ~lastCall.ok)
    => /\ pool = NoPool
       /\ connection_id = NoId
       /\ \A k \in PoolIds : poolState[k] \in {"unbuilt", "closed"}
       /\ lastCall.attempts = 1
       /\ lastCall.pool = NoPool
       /\ returned.op = "connect" => returned.val = "ConnectionFailed"
       /\ returned.op = "get_connection_id" => returned.val = NoId
       /\ returned.op = "read" => returned.val = "NoActiveConnection"

\* C6 witness: a connect fails right after a connect that succeeded, whose
\* pool is closed by now
C6_Witness ==
    /\ serial /\ WriterIdle
    /\ prevCall.kind = "connect" /\ prevCall.ok
    /\ lastCall.kind = "connect" /\ ~lastCall.ok
    /\ poolState[prevCall.pool] = "closed"
    /\ returned = [op |-> "connect", val |-> "ConnectionFailed"]

\* C7: a data operation that finds no pool in the slot returns
\* NoActiveConnection in that step, sends no statement (it never holds a
\* read guard) and leaves slot, identity and pools as they were.
C7_FailFast ==
    [][\A p \in Procs :
          (pc[p] = "r_lock" /\ pc'[p] # "r_lock" /\ pool = NoPool)
          => /\ returned' = [op |-> "read", val |-> "NoActiveConnection"]
             /\ pc'[p] = "idle"
             /\ p \notin poolReaders'
             /\ sent'[p] = 0
             /\ pool' = pool
             /\ connection_id' = connection_id
             /\ poolState' = poolState]_vars

\* C7 witness: a read has just returned NoActiveConnection with the slot
\* empty after a pool was closed, while the read of another caller stands
\* at the lock
C7_Witness ==
    /\ returned = [op |-> "read", val |-> "NoActiveConnection"]
    /\ pool = NoPool
    /\ \E q \in Procs : pc[q] = "r_lock"
    /\ \E k \in PoolIds : poolState[k] = "closed"

\* C8: while a connect or disconnect call is under way no other call makes
\* a step: reads and other connect/disconnect calls wait until it returns.
C8_Exclusive ==
    [][\A p, q \in Procs :
          (p # q /\ Acting(p) /\ pc[q] # "idle")
          => (pc'[q] = pc[q] /\ sent'[q] = sent[q])]_vars

\* C9: from the moment a read has the active pool until it returns, that
\* pool stays in the slot and stays open, and no write guard is given out;
\* both statements of a two-statement read find the same pool.
C9_NoTornRead ==
    \A p \in Procs :
       pc[p] = "r_stmt"
       => /\ p \in poolReaders
          /\ poolWriter = NoProc
          /\ rpool[p] # NoPool
          /\ pool = rpool[p]
          /\ poolState[pool] = "open"

\* C9 witness: a two-statement read stands between its statements while a
\* connect or disconnect waits for the write guard
C9_Witness ==
    \E p, q \in Procs :
       /\ pc[p] = "r_stmt" /\ sent[p] = 1 /\ left[p] = 1
       /\ pc[q] = "d_take"
       /\ pool = rpool[p]

\* what C10 says a stored value becomes
Expected(cell) ==
    CASE cell.kind = "null" -> JsonNull
      [] cell.type = "BOOL" -> Json("bool", cell.val)
      [] cell.type \in {"INT2", "INT4", "INT8"} -> Json("number", cell.val)
      [] cell.type \in {"FLOAT4", "FLOAT8"} ->
           IF cell.kind = "value" THEN Json("number", cell.val) ELSE JsonNull
      [] cell.type \in {"JSON", "JSONB"} -> Json(cell.jtag, cell.val)
      [] cell.type = "UUID" -> Json("string", UuidToString(cell.val))
      [] OTHER -> Json("string", cell.val)

\* C10: for every declared type and stored value the coercion gives the
\* declared JSON tag: BOOL a boolean, INT2/INT4/INT8 the stored number,
\* FLOAT4/FLOAT8 the number or null when non-finite, JSON/JSONB the document
\* unchanged, UUID its canonical string, any other type the text of the
\* value, and null for SQL NULL.
C10_CoercionMatchesTag ==
    rowDone => /\ Len(values) = Len(row)
               /\ \A i \in 1 .. Len(row) : values[i] = Expected(row[i])

\* a call taken on its own has returned Ok
ReturnedOk(fn) == result.fn = fn /\ result.status = "Ok"

\* the JSON kinds a column of the given type can show
TagsOf(type) ==
    CASE type = "BOOL" -> {"bool", "null"}
      [] type \in {"INT2", "INT4", "INT8", "FLOAT4", "FLOAT8"} ->
           {"number", "null"}
      [] OTHER -> {"string", "null"}

\* the rows the last statement of the call gave it
RowsFetched == call.answers[Len(call.answers)].rows

\* C11: every row of a QueryResult or PaginatedResult has exactly
\* len(columns) entries, entry i being the value of column i; a QueryResult
\* has row_count = len(rows) and affected_rows = null.
C11_RowsMatchColumns ==
    (ReturnedOk("execute_query") \/ ReturnedOk("fetch_table_data"))
    => /\ Len(result.rows) = Len(RowsFetched)
       /\ \A k \in 1 .. Len(result.rows) :
             /\ Len(result.rows[k]) = Len(result.columns)
             /\ \A i \in 1 .. Len(result.columns) :
                   /\ result.columns[i].name = RowsFetched[k][i].name
                   /\ result.columns[i].data_type = RowsFetched[k][i].type
                   /\ result.rows[k][i].tag
                         \in TagsOf(result.columns[i].data_type)
                   /\ result.rows[k][i].tag = "null"
                      <=> RowsFetched[k][i].kind = "null"
       /\ result.fn = "execute_query"
          => /\ result.row_count = Len(result.rows)
             /\ result.affected_rows = "None"

\* C11 witness: a result of two rows and two columns with a null entry
C11_Witness ==
    /\ ReturnedOk("execute_query")
    /\ Len(result.rows) = 2
    /\ Len(result.columns) = 2
    /\ result.rows[2][2].tag = "null"
    /\ result.rows[1][2].tag = "string"

\* C12: execute_query on a statement that gives no rows (an empty SELECT or
\* a statement that returns none) succeeds with row_count 0 and empty rows
\* and columns; fetch_table_data on a page without rows gives empty columns
\* and rows and still reports total_count, page and page_size.
C12_EmptyResult ==
    /\ (result.fn = "execute_query"
        /\ call.answers = <<[status |-> "Ok", rows |-> <<>>]>>)
       => /\ result.status = "Ok"
          /\ result.row_count = 0
          /\ result.rows = <<>>
          /\ result.columns = <<>>
    /\ (ReturnedOk("fetch_table_data")
        /\ (args.page_size = 0 \/ db.table = <<>> \/ RowsFetched = <<>>))
       => /\ result.columns = <<>>
          /\ result.rows = <<>>
          /\ result.total_count = call.answers[1].count
          /\ ~db.changed => result.total_count = Len(args.table)
          /\ result.page = args.page
          /\ result.page_size = args.page_size

\* C12 witness: page 3 of a table of two rows, one row a page, and an
\* execute_query whose SELECT found the table empty
C12_Witness ==
    \/ /\ ReturnedOk("fetch_table_data")
       /\ Len(args.table) = 2 /\ args.page = 3 /\ args.page_size = 1
       /\ ~db.changed
       /\ result.rows = <<>>
       /\ result.total_count = 2
    \/ /\ ReturnedOk("execute_query")
       /\ args.stmt.shape = "select"
       /\ result.row_count = 0

\* the rows of page (page >= 1) of the table, page_size (>= 0) rows a page:
\* those at positions offset .. offset + page_size - 1 of the scan, where
\* offset = (page - 1) * page_size
PageOf(table, page, page_size) ==
    IF page_size = 0
       \/ (page > 1 /\ (page - 1 >= Len(table) \/ page_size >= Len(table)))
      THEN <<>>
      ELSE LET offset == (page - 1) * page_size
               last == IF page_size >= Len(table) - offset THEN Len(table)
                       ELSE offset + page_size
           IN  SubSeq(table, offset + 1, last)

\* C13: for page >= 1 and page_size >= 0 a successful fetch_table_data
\* returns at most page_size rows, namely the rows at positions
\* offset .. offset + page_size - 1 of the scan, and echoes page and
\* page_size (the table being left alone during the call).
C13_PageSlice ==
    (ReturnedOk("fetch_table_data") /\ args.page >= 1 /\ args.page_size >= 0
     /\ ~db.changed)
    => /\ Len(result.rows) <= args.page_size
       /\ result.rows = JsonRows(PageOf(args.table, args.page,
                                        args.page_size))
       /\ result.page = args.page
       /\ result.page_size = args.page_size

\* C14: for a table that does not change, total_count is the number of rows
\* of the whole table whatever the page and page_size, also for pages past
\* the end; it is not the length of the page.
C14_TotalCount ==
    (ReturnedOk("fetch_table_data") /\ ~db.changed)
    => result.total_count = Len(args.table)

\* C14 witness: a page of one row of a table of two rows that was left
\* alone
C14_Witness ==
    /\ ReturnedOk("fetch_table_data")
    /\ ~db.changed
    /\ Len(args.table) = 2
    /\ args.page = 2 /\ args.page_size = 1
    /\ Len(result.rows) = 1
    /\ result.total_count = 2

\* C17: for page >= 1 and page_size >= 0 the OFFSET sent in the data
\* statement is the product (page - 1) * page_size of the integers, not
\* negative, also when the product does not fit 32 bits.
C17_OffsetIsProduct ==
    (call.caller # NoProc /\ args.fn = "fetch_table_data"
     /\ args.page >= 1 /\ args.page_size >= 0)
    => /\ result.fn = "fetch_table_data" => result.status # "panic"
       /\ \A i \in 1 .. Len(call.stmts) :
             call.stmts[i].shape = "page"
             => /\ ParseInteger(call.stmts[i].offset) >= 0
                /\ Limbs(ParseInteger(call.stmts[i].offset))
                      \o <<0, 0, 0, 0>>
                      = MulLimbs(Limbs(args.page - 1), Limbs(args.page_size))

\* C15: fetch_columns returns the columns of the table in ordinal order and
\* marks is_primary_key exactly on the columns of the PRIMARY KEY constraint
\* of that (schema, table), whatever constraints other tables carry (the
\* catalog being left alone during the call).
C15_PrimaryKeyColumns ==
    (ReturnedOk("fetch_columns") /\ ~db.changed)
    => LET t == [schema |-> args.schema, table |-> args.table]
       IN  /\ Len(result.columns) = Len(ColumnsOfTable(t))
           /\ \A i \in 1 .. Len(result.columns) :
                 /\ result.columns[i].name = ColumnsOfTable(t)[i]
                 /\ result.columns[i].is_primary_key
                    <=> \E k \in args.catalog :
                           /\ k.schema = args.schema
                           /\ k.table = args.table
                           /\ k.constraint_type = "PRIMARY KEY"
                           /\ result.columns[i].name \in k.columns

\* C16: for every password p encrypt_password(p) succeeds and
\* decrypt_password of its output gives back p; decrypt_password of a text
\* that is not base64 or holds fewer than 12 bytes returns InvalidFormat.
C16_RoundTrip ==
    /\ (args.fn = "encrypt_password" /\ result.fn = "encrypt_password")
       => result.status = "Ok"
    /\ (args.fn = "encrypt_password" /\ result.fn = "decrypt_password")
       => /\ result.status = "Ok"
          /\ result.value = args.password
    /\ (args.fn = "decrypt_password" /\ result.fn = "decrypt_password"
        /\ args.defect \in {"base64", "short"})
       => result.status = "InvalidFormat"

\* C16 witness: a password of two characters, one of them two bytes long,
\* has come back from decrypt_password
C16_Witness ==
    /\ args.fn = "encrypt_password"
    /\ result.fn = "decrypt_password"
    /\ args.password = <<195, 169, 97>>
    /\ result.value = <<195, 169, 97>>

\* C18: when test_connection_by_id returns after it found and decrypted the
\* saved connection, pool and identity are absent and no pool is open,
\* whether connect failed, the test failed or the test succeeded, and
\* whatever connection was active before.
C18_TestLeavesDisconnected ==
    (returned.op = "test_connection_by_id" /\ returned.val # "LookupFailed")
    => /\ pool = NoPool
       /\ connection_id = NoId
       /\ OpenPools = {}
       /\ \A k \in PoolIds : poolState[k] # "dropped"
       /\ returned.val \in {"Ok", "ConnectionFailed", "QueryFailed",
                           "NoActiveConnection"}

\* C18 witness: the command returns the failure of its test after it closed
\* the pool of an earlier connect and its own
C18_Witness ==
    /\ returned = [op |-> "test_connection_by_id", val |-> "QueryFailed"]
    /\ \A k \in PoolIds : poolState[k] = "closed"
    /\ lastCall.kind = "disconnect"
    /\ prevCall.kind = "connect" /\ prevCall.ok

\* C19: with fair lock acquisition and statements, pool builds and pool
\* closes that terminate, every call returns under every interleaving: none
\* ends without a value for its caller and none stays in its call for ever;
\* a disconnect that closes the pool under the write guard waits for no
\* read: no statement runs on the taken pool, and the reads that wait for
\* the lock hold nothing it needs.
C19_EveryCallReturns ==
    /\ [](returned.val # "panic")
    /\ [](\A p \in Procs :
             pc[p] = "d_close"
             => /\ poolWriter = p
                /\ poolReaders = {}
                /\ \A q \in Procs : pc[q] # "r_stmt")
    /\ \A p \in Procs : (pc[p] # "idle") ~> (pc[p] = "idle")

\* no call stays in its call for ever, however it ends
NoCallHangs ==
    /\ [](\A p \in Procs :
             pc[p] = "d_close"
             => /\ poolWriter = p
                /\ poolReaders = {}
                /\ \A q \in Procs : pc[q] # "r_stmt")
    /\ \A p \in Procs : (pc[p] # "idle") ~> (pc[p] = "idle")
====
